---- MODULE Spec2Model ----
(***************************************************************************)
(* Model of the trend-change detection engine of perso-cb-lite:            *)
(*   - the Signal Evaluator (weighted scores, label, dip score, triggers), *)
(*   - the Trend State Machine (detectTrendChange on the shared client),   *)
(*   - the Indicator Engine's fan-in with early termination,               *)
(*   - the Notifier's retry loop (SendWebhook).                            *)
(*                                                                         *)
(* Units.  Prices (EMA12, EMA26, EMA200, CurrentPrice) are whole dollars,  *)
(* MACD and SignalLine are hundredths of a dollar, RSI/ADX/PriceDropPct12h *)
(* are whole points/percent.  Scores are fixed-point thousandths ("milli") *)
(* of the float64 scores of the code, so the code's 7.0 is 7000.  Time is  *)
(* whole minutes since Go's zero time.Time.                                *)
(***************************************************************************)
EXTENDS Integers, Sequences, FiniteSets, TLC

(***************************************************************************)
(* Bounds of the model.                                                    *)
(***************************************************************************)
\* wall clock (minutes after the zero time.Time) when the client is created
StartTime == 10
\* evaluations made by one run of the trend state machine
MaxEvals == 3

\* minutes between one evaluation and the next: both sides of the 5 and the
\* 8 minute cooldowns
Gaps == {4, 5, 7, 8, 9}
\* rounds of concurrent calls after the first
MaxRounds == 1

(***************************************************************************)
(* Signal Evaluator: src/client/client.go                                  *)
(***************************************************************************)
Milli == 1000

\* IEEE-754 +Inf, the result of a float64 division of a positive by zero
PosInf == 10 ^ 9

Abs(x) == IF x < 0 THEN 0 - x ELSE x

\* (diff / base * 100) in milli-percent, diff > 0 at every call site
StrengthPct(diff, base) ==
    IF base = 0 THEN PosInf ELSE (diff * 100 * Milli) \div base

\* strength * 0.1 and strength * 0.05: x / k, +Inf staying +Inf
Scaled(x, k) == IF x >= PosInf THEN PosInf ELSE x \div k

\* score += x with +Inf absorbing
Plus(a, b) == IF a >= PosInf \/ b >= PosInf THEN PosInf ELSE a + b

Trig(cond, name) == IF cond THEN <<name>> ELSE <<>>

\* TechnicalIndicators, the IndicatorSet
IndicatorSet(macd, sig, e12, e26, e200, rsi, adx, drop, spike, price) ==
    [MACD |-> macd, SignalLine |-> sig, EMA12 |-> e12, EMA26 |-> e26,
     EMA200 |-> e200, RSI |-> rsi, ADX |-> adx, PriceDropPct12h |-> drop,
     VolumeSpike |-> spike, AverageVolume |-> IF spike THEN 10 ELSE 0,
     LastVolume |-> IF spike THEN 30 ELSE 0, CurrentPrice |-> price]

\* TechnicalIndicators{}: what a window of fewer than 50 candles yields
ZeroSet == IndicatorSet(0, 0, 0, 0, 0, 0, 0, 0, FALSE, 0)
\* strong sell-off: bearish label and a qualifying dip score
StrongBear == IndicatorSet(-20, 0, 90, 100, 100, 50, 20, 0, FALSE, 100)
\* slow decline: bearish label, dip score below the dip threshold
MildBear == IndicatorSet(-3, 0, 100, 100, 100, 38, 30, -4, FALSE, 90)
\* rally: bullish label
Bull == IndicatorSet(20, 0, 110, 100, 100, 65, 20, 0, FALSE, 100)
\* sudden drop on volume: neutral label, qualifying dip score
DipOnly == IndicatorSet(0, 0, 100, 100, 100, 20, 20, -8, TRUE, 100)

Windows == {ZeroSet, StrongBear, MildBear, Bull, DipOnly}

calculateBearishScore(ind) ==
    LET macdBear == ind.MACD < ind.SignalLine
        macd == IF macdBear
                THEN IF ind.MACD < -10
                     THEN 2000 + Abs(ind.MACD - ind.SignalLine) * 100
                     ELSE 1500
                ELSE 0
        ema == IF ind.EMA12 < ind.EMA26
               THEN Plus(2000, Scaled(StrengthPct(ind.EMA26 - ind.EMA12, ind.EMA26), 10))
               ELSE 0
        rsi == IF ind.RSI < 40
               THEN (IF ind.RSI < 30 THEN 2000 ELSE 1500)
               ELSE IF ind.RSI < 45 THEN 500 ELSE 0
        drop == IF ind.PriceDropPct12h < 0
                THEN IF Abs(ind.PriceDropPct12h) > 5 THEN 2000
                     ELSE IF Abs(ind.PriceDropPct12h) > 3 THEN 1500
                     ELSE IF Abs(ind.PriceDropPct12h) > 1 THEN 500 ELSE 0
                ELSE 0
        e200 == IF ind.CurrentPrice < ind.EMA200
                THEN IF ind.RSI < 40
                     THEN Plus(1500, Scaled(StrengthPct(ind.EMA200 - ind.CurrentPrice, ind.EMA200), 10))
                     ELSE Plus(1000, Scaled(StrengthPct(ind.EMA200 - ind.CurrentPrice, ind.EMA200), 20))
                ELSE 0
        adx == IF ind.ADX > 25 THEN (IF macdBear THEN 1500 ELSE 500) ELSE 0
        vol == IF ind.VolumeSpike /\ ind.PriceDropPct12h < -2 THEN 500 ELSE 0
    IN  Plus(Plus(Plus(macd, ema), Plus(rsi, drop)), Plus(Plus(e200, adx), vol))

calculateBullishScore(ind) ==
    LET macdBull == ind.MACD > ind.SignalLine
        macd == IF macdBull
                THEN IF ind.MACD > 10
                     THEN 2000 + Abs(ind.MACD - ind.SignalLine) * 100
                     ELSE 1500
                ELSE 0
        ema == IF ind.EMA12 > ind.EMA26
               THEN Plus(2000, Scaled(StrengthPct(ind.EMA12 - ind.EMA26, ind.EMA26), 10))
               ELSE 0
        rsi == IF ind.RSI > 60
               THEN (IF ind.RSI > 70 THEN 2000 ELSE 1500)
               ELSE IF ind.RSI > 55 THEN 500 ELSE 0
        gain == IF ind.PriceDropPct12h > 0
                THEN IF ind.PriceDropPct12h > 5 THEN 2000
                     ELSE IF ind.PriceDropPct12h > 3 THEN 1500
                     ELSE IF ind.PriceDropPct12h > 1 THEN 500 ELSE 0
                ELSE 0
        e200 == IF ind.CurrentPrice > ind.EMA200
                THEN IF ind.RSI > 60
                     THEN Plus(1500, Scaled(StrengthPct(ind.CurrentPrice - ind.EMA200, ind.EMA200), 10))
                     ELSE Plus(1000, Scaled(StrengthPct(ind.CurrentPrice - ind.EMA200, ind.EMA200), 20))
                ELSE 0
        adx == IF ind.ADX > 25 THEN (IF macdBull THEN 1500 ELSE 500) ELSE 0
        vol == IF ind.VolumeSpike /\ ind.PriceDropPct12h > 2 THEN 500 ELSE 0
    IN  Plus(Plus(Plus(macd, ema), Plus(rsi, gain)), Plus(Plus(e200, adx), vol))

\* the label threshold of determineTrendState, 7.0
TrendThreshold == 7000

determineTrendStateLow(ind) ==
    IF calculateBearishScore(ind) >= 2000 THEN "bearish"
    ELSE IF calculateBullishScore(ind) >= 2000 THEN "bullish"
    ELSE "neutral"

determineTrendStateStrict(ind) ==
    IF calculateBearishScore(ind) > TrendThreshold THEN "bearish"
    ELSE IF calculateBullishScore(ind) > TrendThreshold THEN "bullish"
    ELSE "neutral"

determineTrendState(ind) ==
    IF calculateBearishScore(ind) >= TrendThreshold THEN "bearish"
    ELSE IF calculateBullishScore(ind) >= TrendThreshold THEN "bullish"
    ELSE "neutral"

\* the dip threshold of detectImmediateDip, 6.0
DipThreshold == 6000

dipScore(ind) ==
    LET macdBear == ind.MACD < ind.SignalLine
        drop == IF ind.PriceDropPct12h < -3
                THEN IF Abs(ind.PriceDropPct12h) > 7 THEN 3000
                     ELSE IF Abs(ind.PriceDropPct12h) > 5 THEN 2000 ELSE 1000
                ELSE 0
        rsi == IF ind.RSI < 35 THEN (IF ind.RSI < 25 THEN 2500 ELSE 1500) ELSE 0
        macd == IF macdBear
                THEN IF ind.MACD < -15
                     THEN 2500 + Abs(ind.MACD - ind.SignalLine) * 100
                     ELSE IF ind.MACD < -5 THEN 2000 ELSE 1000
                ELSE 0
        ema == IF ind.EMA12 < ind.EMA26
               THEN Plus(2000, Scaled(StrengthPct(ind.EMA26 - ind.EMA12, ind.EMA26), 10))
               ELSE 0
        vol == IF ind.VolumeSpike /\ ind.PriceDropPct12h < -2 THEN 1000 ELSE 0
        adx == IF ind.ADX > 25 /\ macdBear THEN 1500 ELSE 0
        e200 == IF ind.CurrentPrice < ind.EMA200 /\ ind.RSI < 40
                THEN Plus(1000, Scaled(StrengthPct(ind.EMA200 - ind.CurrentPrice, ind.EMA200), 20))
                ELSE 0
    IN  Plus(Plus(Plus(drop, rsi), Plus(macd, ema)), Plus(Plus(vol, adx), e200))

dipTriggers(ind) ==
    LET macdBear == ind.MACD < ind.SignalLine
    IN  Trig(ind.PriceDropPct12h < -3 /\ Abs(ind.PriceDropPct12h) > 7, "STRONG_PRICE_DROP")
        \o Trig(ind.PriceDropPct12h < -3 /\ Abs(ind.PriceDropPct12h) <= 7
                  /\ Abs(ind.PriceDropPct12h) > 5, "IMMEDIATE_PRICE_DROP")
        \o Trig(ind.RSI < 25, "EXTREME_RSI_OVERSOLD")
        \o Trig(ind.RSI < 35 /\ ind.RSI >= 25, "RSI_OVERSOLD")
        \o Trig(macdBear /\ ind.MACD < -15, "STRONG_MACD_BEARISH")
        \o Trig(macdBear /\ ind.MACD >= -15 /\ ind.MACD < -5, "MACD_BEARISH_CROSSOVER")
        \o Trig(ind.EMA12 < ind.EMA26, "EMA_BEARISH_CROSSOVER")
        \o Trig(ind.VolumeSpike /\ ind.PriceDropPct12h < -2, "VOLUME_SPIKE_WITH_DROP")
        \o Trig(ind.ADX > 25 /\ macdBear, "STRONG_BEARISH_MOMENTUM")
        \o Trig(ind.CurrentPrice < ind.EMA200 /\ ind.RSI < 40, "BELOW_EMA200_WITH_MOMENTUM")

\* (bool, []string): the triggers are nil unless the dip qualifies
detectImmediateDip(ind) ==
    IF dipScore(ind) >= DipThreshold
    THEN [detected |-> TRUE, triggers |-> dipTriggers(ind)]
    ELSE [detected |-> FALSE, triggers |-> <<>>]

calculateTriggers(ind, trend) ==
    IF trend = "bearish"
    THEN Trig(ind.MACD < ind.SignalLine /\ ind.MACD < 0, "MACD_BEARISH_CROSSOVER")
         \o Trig(ind.EMA12 < ind.EMA26, "EMA_BEARISH_CROSSOVER")
         \o Trig(ind.RSI < 40, "RSI_MOMENTUM_BREAKDOWN")
         \o Trig(ind.PriceDropPct12h < -5, "PRICE_TREND_REVERSAL")
         \o Trig(ind.CurrentPrice < ind.EMA200 /\ ind.RSI < 45, "MAJOR_TREND_BREAKDOWN")
    ELSE IF trend = "bullish"
    THEN Trig(ind.MACD > ind.SignalLine /\ ind.MACD > 0, "MACD_BULLISH_CROSSOVER")
         \o Trig(ind.EMA12 > ind.EMA26, "EMA_BULLISH_CROSSOVER")
         \o Trig(ind.RSI > 60, "RSI_MOMENTUM_BUILDUP")
         \o Trig(ind.PriceDropPct12h > 5, "PRICE_TREND_REVERSAL")
         \o Trig(ind.CurrentPrice > ind.EMA200 /\ ind.RSI > 55, "MAJOR_TREND_BREAKOUT")
    ELSE <<>>

(***************************************************************************)
(* Trend State Machine: the TrendState fields of CoinbaseClient and        *)
(* detectTrendChange, src/client/client.go                                 *)
(***************************************************************************)
VARIABLES
    lastTrendState,   \* CoinbaseClient.lastTrendState
    lastSignalTime,   \* CoinbaseClient.lastSignalTime, minutes
    webhookURL,       \* CoinbaseClient.webhookURL
    now,              \* the wall clock, minutes
    nEvals,           \* evaluations made so far
    hadTrend,         \* some evaluation so far yielded a non-neutral label
    ev,               \* the most recent evaluation, NoEval before the first
    prevEv            \* the evaluation before ev

trendVars == <<lastTrendState, lastSignalTime, webhookURL, now, nEvals, hadTrend, ev, prevEv>>

\* time.Time{}: the value of lastSignalTime that NewCoinbaseClient leaves
ZeroTime == 0

\* NewCoinbaseClient sets no lastTrendState: the field holds Go's zero string
InitialTrendState == ""

NonNeutral == {"bullish", "bearish"}

\* time.Since(c.lastSignalTime) < 5*time.Minute
DipCooldownShort(t, last) == t - last < 3

DipCooldownNone(t, last) == FALSE

DipCooldownActive(t, last) == t - last < 5

\* time.Since(c.lastSignalTime) < 8*time.Minute
TrendCooldownShort(t, last) == t - last < 6

TrendCooldownLong(t, last) == t - last < 10

TrendCooldownFlipped(t, last) == t - last >= 8

TrendCooldownActive(t, last) == t - last < 8

\* currentTrend != c.lastTrendState && currentTrend != "neutral"
TrendChangedAny(currentTrend, label) == currentTrend # label

TrendChanged(currentTrend, label) == currentTrend # label /\ currentTrend # "neutral"

\* the dip branch of detectTrendChange is taken and returns
DipFires(detected, t, last) == detected /\ ~DipCooldownActive(t, last)

\* the body of detectTrendChange after its calls of the Signal Evaluator;
\* path names the return statement taken
trendDecision(label, last, ind, t, currentTrend, dip) ==
    LET keep(path) == [emitted |-> FALSE, trend |-> currentTrend, triggers |-> <<>>,
                       label |-> label, last |-> last, path |-> path,
                       currentTrend |-> currentTrend, dip |-> dip.detected]
        accept(path) == [emitted |-> TRUE, trend |-> currentTrend,
                         triggers |-> calculateTriggers(ind, currentTrend),
                         label |-> currentTrend, last |-> t, path |-> path,
                         currentTrend |-> currentTrend, dip |-> dip.detected]
    IN  IF DipFires(dip.detected, t, last)
        THEN [emitted |-> TRUE, trend |-> "bearish", triggers |-> dip.triggers,
              label |-> label, last |-> t, path |-> "dip",
              currentTrend |-> currentTrend, dip |-> dip.detected]
        ELSE IF label = "neutral"
        THEN IF currentTrend # "neutral" THEN accept("first") ELSE keep("none")
        ELSE IF TrendChanged(currentTrend, label)
        THEN IF TrendCooldownActive(t, last) THEN keep("suppressed") ELSE accept("change")
        ELSE keep("none")

\* (bool, string, []string) = (emitted, trend, triggers), and the TrendState
\* (label, last) the call leaves
detectTrendChangeSticky(label, last, ind, t) ==
    trendDecision(label, last, ind, t,
                  IF label = "bearish" /\ calculateBearishScore(ind) >= DipThreshold
                  THEN "bearish" ELSE determineTrendState(ind),
                  detectImmediateDip(ind))

detectTrendChangeStamping(label, last, ind, t) ==
    [trendDecision(label, last, ind, t, determineTrendState(ind), detectImmediateDip(ind))
        EXCEPT !.last = t]

detectTrendChange(label, last, ind, t) ==
    trendDecision(label, last, ind, t, determineTrendState(ind), detectImmediateDip(ind))

NoEval ==
    [n |-> 0, time |-> ZeroTime, ind |-> ZeroSet, currentTrend |-> "neutral",
     dip |-> FALSE, firstTrend |-> FALSE, emitted |-> FALSE, trend |-> "neutral",
     triggers |-> <<>>, path |-> "none", labelBefore |-> InitialTrendState,
     lastBefore |-> ZeroTime, bearishSignal |-> FALSE, webhook |-> FALSE]

TrendInit ==
    /\ lastTrendState = InitialTrendState
    /\ lastSignalTime = ZeroTime
    /\ webhookURL \in {"", "http://n8n:5678/webhook/signal"}
    /\ now = StartTime
    /\ nEvals = 0
    /\ hadTrend = FALSE
    /\ ev = NoEval
    /\ prevEv = NoEval

\* GetSignalWithCandles on the indicators of one candle window, run alone,
\* gap minutes after the previous evaluation
Evaluate(ind, gap) ==
    /\ nEvals < MaxEvals
    /\ \E r \in {detectTrendChange(lastTrendState, lastSignalTime, ind, now + gap)} :
        /\ now' = now + gap
        /\ lastTrendState' = r.label
        /\ lastSignalTime' = r.last
        /\ nEvals' = nEvals + 1
        /\ hadTrend' = (hadTrend \/ r.currentTrend # "neutral")
        /\ prevEv' = ev
        /\ ev' = [n |-> nEvals + 1, time |-> now + gap, ind |-> ind,
                  currentTrend |-> r.currentTrend, dip |-> r.dip,
                  firstTrend |-> (~hadTrend /\ r.currentTrend # "neutral"),
                  emitted |-> r.emitted, trend |-> r.trend, triggers |-> r.triggers,
                  path |-> r.path, labelBefore |-> lastTrendState,
                  lastBefore |-> lastSignalTime,
                  bearishSignal |-> (r.trend = "bearish"),
                  webhook |-> (r.emitted /\ webhookURL # "")]
    /\ UNCHANGED webhookURL

TrendNext == \E ind \in Windows, gap \in Gaps : Evaluate(ind, gap)

(***************************************************************************)
(* Properties of the Trend State Machine, checked under Spec.  In every    *)
(* state ev describes the latest evaluation: ev.labelBefore/ev.lastBefore  *)
(* are the TrendState it found, lastTrendState/lastSignalTime the          *)
(* TrendState it left.                                                     *)
(***************************************************************************)
SinceLast == ev.time - ev.lastBefore

Unchanged == lastTrendState = ev.labelBefore /\ lastSignalTime = ev.lastBefore

\* the latest evaluation took the immediate-dip path of the claims: a dip
\* score of at least 6.0, at least 5 minutes after lastSignalTime
DipPathTaken == ev.dip /\ SinceLast >= 5

DipEvent ==
    /\ ev.emitted
    /\ ev.trend = "bearish"
    /\ lastSignalTime = ev.time
    /\ lastTrendState = ev.labelBefore

EventsOfFirstTwo == (IF prevEv.emitted THEN 1 ELSE 0) + (IF ev.emitted THEN 1 ELSE 0)

TwoBearishWithin8 ==
    /\ ev.n = 2
    /\ prevEv.currentTrend = "bearish"
    /\ ev.currentTrend = "bearish"
    /\ ev.time - prevEv.time < 8

LabelDiffers ==
    /\ ev.n > 0
    /\ ev.labelBefore \in NonNeutral
    /\ ev.currentTrend \in NonNeutral
    /\ ev.currentTrend # ev.labelBefore

LabelChangeOnlyAfter8 ==
    ev.n > 0 /\ ev.labelBefore \in NonNeutral /\ lastTrendState # ev.labelBefore
        => lastTrendState = ev.currentTrend /\ SinceLast >= 8

C4_FirstTrendAccepted ==
    ev.firstTrend => ev.emitted /\ lastSignalTime = ev.time

NeutralAtTrend ==
    ev.n > 0 /\ ev.labelBefore \in NonNeutral /\ ev.currentTrend = "neutral"

NeverBackToNeutral ==
    ev.n > 0 /\ ev.labelBefore \in NonNeutral => lastTrendState \in NonNeutral

C32_NoEventNoChange ==
    /\ (ev.n > 0 /\ ~ev.emitted) => Unchanged
    /\ lastSignalTime >= ev.lastBefore

\* a label change suppressed by the cooldown after an evaluation that
\* emitted an event: label and lastSignalTime are those the event left
C32_Witness ==
    /\ ~ev.emitted /\ ev.path = "suppressed"
    /\ prevEv.emitted
    /\ ev.labelBefore \in NonNeutral
    /\ ev.currentTrend # ev.labelBefore
    /\ lastTrendState = ev.labelBefore
    /\ lastSignalTime = prevEv.time

\* C33: evaluations run one at a time: lastSignalTime is the time of the
\* latest SignalEvent, and an event is emitted at least 5 minutes after the
\* previous one: at least 8 minutes for a label transition, at least 5 for a
\* dip event.
C33_EventsApart ==
    /\ ev.emitted => lastSignalTime = ev.time
    /\ (ev.n > 0 /\ ~ev.emitted) => lastSignalTime = ev.lastBefore
    /\ (ev.emitted /\ ev.lastBefore # ZeroTime) =>
          /\ SinceLast >= 5
          /\ ev.path # "dip" => SinceLast >= 8

\* a dip event exactly 5 minutes after a first event, and a label
\* transition exactly 8 minutes after the dip event
C33_Witness ==
    /\ ev.n = MaxEvals
    /\ ev.emitted /\ ev.path = "change" /\ ev.time - prevEv.time = 8
    /\ prevEv.emitted /\ prevEv.path = "dip" /\ prevEv.time - prevEv.lastBefore = 5
    /\ prevEv.lastBefore # ZeroTime

\* C36: the all-zero IndicatorSet of a window with insufficient data never
\* produces an event or a state change: its label is Neutral, its dip score
\* is below 6.0, and its evaluation emits nothing and leaves label and
\* lastSignalTime, in every TrendState.
C36_ZeroSetIsInert ==
    (ev.n > 0 /\ ev.ind = ZeroSet) =>
        /\ ev.currentTrend = "neutral"
        /\ dipScore(ev.ind) < DipThreshold /\ ~ev.dip
        /\ ~ev.emitted /\ ev.triggers = <<>>
        /\ Unchanged

\* the all-zero set evaluated on a client whose label is set, after every
\* cooldown has elapsed
C36_Witness ==
    /\ ev.n > 1
    /\ ev.ind = ZeroSet
    /\ ev.labelBefore \in NonNeutral
    /\ SinceLast >= 9
    /\ lastSignalTime = ev.lastBefore

\* handlers.go:461-468: the status GET /api/v1/signal answers with
GetSignalStatus(signal) == IF signal.bearishSignal THEN "200 OK" ELSE "204 No Content"

\* C26: GET /api/v1/signal answers 200 OK exactly when the evaluation
\* detected a trend change (an accepted transition) and 204 No Content
\* exactly when it detected none.
C26_OkIffTrendChange ==
    ev.n > 0 =>
        /\ GetSignalStatus(ev) = "200 OK" <=> ev.emitted
        /\ GetSignalStatus(ev) = "204 No Content" <=> ~ev.emitted

(***************************************************************************)
(* Concurrent evaluations.  The poller goroutine (checkSignal) and the     *)
(* HTTP handlers (GetSignal, CheckSignal) call GetSignalWithCandles on the *)
(* same CoinbaseClient; detectTrendChange takes no lock, so its reads and  *)
(* writes of lastTrendState and lastSignalTime interleave.                 *)
(***************************************************************************)
VARIABLES
    rpc,     \* where each caller stands in detectTrendChange
    rloc,    \* each caller's locals
    emits    \* the SignalEvents returned so far

raceVars == <<rpc, rloc, emits>>

Callers == {"poller", "http"}

NoLocals == [ind |-> ZeroSet, observed |-> ZeroTime, path |-> "none"]

RaceIdle ==
    /\ rpc = [c \in Callers |-> "idle"]
    /\ rloc = [c \in Callers |-> NoLocals]
    /\ emits = {}

\* detectTrendChange is entered with the indicators of the caller's window
RaceEnter(c, ind) ==
    /\ rpc[c] = "idle"
    /\ rpc' = [rpc EXCEPT ![c] = "dip"]
    /\ rloc' = [rloc EXCEPT ![c] = [NoLocals EXCEPT !.ind = ind]]
    /\ UNCHANGED <<trendVars, emits>>

\* client.go:401-404: the dip test and its read of lastSignalTime
RaceDipCheck(c) ==
    /\ rpc[c] = "dip"
    /\ IF DipFires(detectImmediateDip(rloc[c].ind).detected, now, lastSignalTime)
       THEN /\ rpc' = [rpc EXCEPT ![c] = "dipCommit"]
            /\ rloc' = [rloc EXCEPT ![c].observed = lastSignalTime, ![c].path = "dip"]
       ELSE /\ rpc' = [rpc EXCEPT ![c] = "trend"]
            /\ UNCHANGED rloc
    /\ UNCHANGED <<trendVars, emits>>

\* client.go:411-415: the dip branch writes lastSignalTime and returns
RaceDipCommit(c) ==
    /\ rpc[c] = "dipCommit"
    /\ lastSignalTime' = now
    /\ emits' = emits \cup {[caller |-> c, observed |-> rloc[c].observed,
                             path |-> "dip", trend |-> "bearish", time |-> now]}
    /\ rpc' = [rpc EXCEPT ![c] = "done"]
    /\ UNCHANGED <<lastTrendState, webhookURL, now, nEvals, hadTrend, ev, prevEv, rloc>>

\* client.go:420-440: the reads of lastTrendState and lastSignalTime that
\* decide whether a transition is due
RaceTrendCheck(c) ==
    /\ rpc[c] = "trend"
    /\ \E r \in {detectTrendChange(lastTrendState, lastSignalTime, rloc[c].ind, now)} :
          IF r.path \in {"first", "change"}
          THEN /\ rpc' = [rpc EXCEPT ![c] = "trendCommit"]
               /\ rloc' = [rloc EXCEPT ![c].observed = lastSignalTime, ![c].path = r.path]
          ELSE /\ rpc' = [rpc EXCEPT ![c] = "done"]
               /\ rloc' = [rloc EXCEPT ![c].path = r.path]
    /\ UNCHANGED <<trendVars, emits>>

\* client.go:423-426, 443-452: the writes of the accepted transition
RaceTrendCommit(c) ==
    /\ rpc[c] = "trendCommit"
    /\ lastTrendState' = determineTrendState(rloc[c].ind)
    /\ lastSignalTime' = now
    /\ emits' = emits \cup {[caller |-> c, observed |-> rloc[c].observed,
                             path |-> rloc[c].path,
                             trend |-> determineTrendState(rloc[c].ind), time |-> now]}
    /\ rpc' = [rpc EXCEPT ![c] = "done"]
    /\ UNCHANGED <<webhookURL, now, nEvals, hadTrend, ev, prevEv, rloc>>

\* both callers have returned; their next calls come some minutes later
RaceReturn(gap) ==
    /\ \A c \in Callers : rpc[c] = "done"
    /\ nEvals < MaxRounds
    /\ nEvals' = nEvals + 1
    /\ now' = now + gap
    /\ rpc' = [c \in Callers |-> "idle"]
    /\ rloc' = [c \in Callers |-> NoLocals]
    /\ emits' = {}
    /\ UNCHANGED <<lastTrendState, lastSignalTime, webhookURL, hadTrend, ev, prevEv>>

RaceNext ==
    \/ \E c \in Callers, ind \in Windows : RaceEnter(c, ind)
    \/ \E c \in Callers : RaceDipCheck(c)
    \/ \E c \in Callers : RaceDipCommit(c)
    \/ \E c \in Callers : RaceTrendCheck(c)
    \/ \E c \in Callers : RaceTrendCommit(c)
    \/ \E gap \in Gaps : RaceReturn(gap)

\* C1: two evaluations never both see the cooldown expired against the same
\* lastSignalTime and both commit: no two SignalEvents of different callers
\* were decided on the same observed lastSignalTime.
C1_TransitionsSerialized ==
    \A e1, e2 \in emits :
        e1.caller # e2.caller => e1.observed # e2.observed

(***************************************************************************)
(* Notifier: SendWebhook, one call.  Delays are whole seconds.  The target *)
(* is described by how many of its first attempts fail.                    *)
(***************************************************************************)
VARIABLES
    maxRetries,   \* c.webhookMaxRetries
    target,       \* [always |-> it never succeeds, failures |-> failing attempts before a success]
    hookPc,       \* "idle", "attempt", "sleep", "done"
    attempt,      \* the loop variable
    calls,        \* sendWebhookAttempt calls made
    slept,        \* the delays slept, in order
    hookResult    \* "none", "ok", "error", "no_url"

hookVars == <<maxRetries, target, hookPc, attempt, calls, slept, hookResult>>

\* largest configured retry count explored
MaxRetriesBound == 3

BaseDelay == 1

Targets ==
    {[always |-> TRUE, failures |-> 0]} \cup
    {[always |-> FALSE, failures |-> k] : k \in 0 .. MaxRetriesBound + 1}

\* the outcome of the n-th sendWebhookAttempt (n counted from 1)
AttemptFails(tg, n) == tg.always \/ n <= tg.failures

LoopContinues(a, retries) == a <= retries

GivesUpEarly(a, retries) == a + 1 >= retries

GivesUpAtOnce(a, retries) == a >= 0

GivesUp(a, retries) == a = retries

BackoffLinear(a) == BaseDelay * (a + 1)

BackoffDelay(a) == BaseDelay * 2 ^ a

HookIdle ==
    /\ maxRetries = 3
    /\ target = [always |-> TRUE, failures |-> 0]
    /\ hookPc = "idle"
    /\ attempt = 0
    /\ calls = 0
    /\ slept = <<>>
    /\ hookResult = "none"

HookInit ==
    /\ maxRetries \in 0 .. MaxRetriesBound
    /\ target \in Targets
    /\ hookPc = "idle"
    /\ attempt = 0
    /\ calls = 0
    /\ slept = <<>>
    /\ hookResult = "none"

\* client.go:240-254: the URL test and the entry into the loop
SendWebhookEnter ==
    /\ hookPc = "idle"
    /\ attempt' = 0
    /\ IF webhookURL = ""
       THEN hookPc' = "done" /\ hookResult' = "no_url"
       ELSE IF LoopContinues(0, maxRetries)
            THEN hookPc' = "attempt" /\ hookResult' = "none"
            ELSE hookPc' = "done" /\ hookResult' = "error"
    /\ UNCHANGED <<maxRetries, target, calls, slept>>

\* client.go:259-296: one attempt, then success, giving up, or a retry
SendWebhookAttempt ==
    /\ hookPc = "attempt"
    /\ calls' = calls + 1
    /\ IF ~AttemptFails(target, calls + 1)
       THEN hookPc' = "done" /\ hookResult' = "ok"
       ELSE IF GivesUp(attempt, maxRetries)
            THEN hookPc' = "done" /\ hookResult' = "error"
            ELSE hookPc' = "sleep" /\ hookResult' = "none"
    /\ UNCHANGED <<maxRetries, target, attempt, slept>>

\* client.go:298-306, 254: the backoff sleep, attempt++ and the loop test
SendWebhookSleep ==
    /\ hookPc = "sleep"
    /\ slept' = Append(slept, BackoffDelay(attempt))
    /\ attempt' = attempt + 1
    /\ IF LoopContinues(attempt + 1, maxRetries)
       THEN hookPc' = "attempt" /\ hookResult' = "none"
       ELSE hookPc' = "done" /\ hookResult' = "error"
    /\ UNCHANGED <<maxRetries, target, calls>>

HookNext ==
    \/ SendWebhookEnter
    \/ SendWebhookAttempt
    \/ SendWebhookSleep

\* C10: against a target that always fails SendWebhook never makes more than
\* maxRetries+1 attempts, and when it returns it has made exactly
\* maxRetries+1 and returns the failure, for every maxRetries from 0 up.
C10_AlwaysFailingGivesUp ==
    (webhookURL # "" /\ target.always) =>
        /\ calls <= maxRetries + 1
        /\ hookPc = "done" => (calls = maxRetries + 1 /\ hookResult = "error")

C10_Witness ==
    /\ webhookURL # ""
    /\ target.always
    /\ maxRetries = 0
    /\ hookPc = "done"
    /\ calls = 1
    /\ hookResult = "error"

\* the target fails its first k attempts and then succeeds, k <= maxRetries
SucceedsInTime ==
    /\ webhookURL # ""
    /\ ~target.always
    /\ target.failures <= maxRetries

\* C11: for a target that fails its first k attempts and succeeds on attempt
\* k+1, with k <= maxRetries, SendWebhook returns success after exactly k+1
\* calls, and once an attempt has succeeded the call is over: no further
\* attempt and no sleep follows the success.
C11_StopsAtFirstSuccess ==
    SucceedsInTime =>
        /\ calls <= target.failures + 1
        /\ hookPc = "done" => (hookResult = "ok" /\ calls = target.failures + 1)
        /\ hookResult = "ok" =>
              (hookPc = "done" /\ calls = target.failures + 1
                               /\ Len(slept) = target.failures)

C11_Witness ==
    /\ SucceedsInTime
    /\ maxRetries = 3
    /\ target.failures = 2
    /\ hookPc = "done"
    /\ hookResult = "ok"
    /\ calls = 3
    /\ slept = <<1, 2>>

\* C12: the i-th delay slept is 1s x 2^(i-1), the delay after the failed
\* attempt of 0-based index i-1 < maxRetries (1s, 2s, 4s for three retries);
\* nothing is slept before the first attempt, and after the last failed
\* attempt the call returns without sleeping.
C12_BackoffDelays ==
    /\ \A i \in 1 .. Len(slept) : slept[i] = 2 ^ (i - 1) /\ i - 1 < maxRetries
    /\ calls = 0 => slept = <<>>
    /\ hookPc = "attempt" => Len(slept) = calls
    /\ hookPc = "sleep" => Len(slept) = calls - 1
    /\ (hookPc = "done" /\ calls > 0) => Len(slept) = calls - 1
    /\ (hookPc = "done" /\ hookResult = "error" /\ maxRetries = 3)
          => slept = <<1, 2, 4>>

C12_Witness ==
    /\ webhookURL # ""
    /\ target.always
    /\ maxRetries = 3
    /\ hookPc = "done"
    /\ hookResult = "error"
    /\ slept = <<1, 2, 4>>

(***************************************************************************)
(* One GetSignalWithCandles call after another, each with the delivery of  *)
(* its webhook: the evaluation, then SendWebhook inside the call, then the *)
(* return to the caller.                                                   *)
(***************************************************************************)
VARIABLES
    callPc,       \* "idle", "hook" (inside SendWebhook), "returned"
    response,     \* the *SignalResponse built by the call
    callErr,      \* the error returned: "none" (not returned yet), "nil", "fetch"
    deliveries,   \* SendWebhook calls started by this evaluation
    requests      \* the HTTP requests the webhook target has received, in order

callVars == <<callPc, response, callErr, deliveries, requests>>

\* evaluations made in a run with deliveries
MaxCalls == 2

SignalResponseOf(e) ==
    [BearishSignal |-> (e.trend = "bearish"), Indicators |-> e.ind,
     Triggers |-> e.triggers, Timestamp |-> e.time]

NoResponse == SignalResponseOf(NoEval)

\* the query parameters set by sendWebhookAttempt
WebhookRequest(signal) ==
    [signal |-> "true", bearish |-> "true", triggers |-> signal.Triggers,
     timestamp |-> signal.Timestamp]

WebhookDueAlways(trendChange, url) == url # ""

\* orders.go:639: if trendChange && c.webhookURL != ""
WebhookDue(trendChange, url) == trendChange /\ url # ""

PropagatedErrorLeaks(result) == IF result = "error" THEN "webhook" ELSE "nil"

\* orders.go:640-641, 655: the error of SendWebhook is logged, nil is returned
PropagatedError(result) == "nil"

RolledBack(after, before, result) == IF result = "error" THEN before ELSE after

\* orders.go:639-655: nothing after detectTrendChange writes the TrendState
AfterDelivery(after, before, result) == after

\* the targets a delivery may meet: never succeeds, succeeds at once, or
\* succeeds after one failure
CallTargets ==
    {[always |-> TRUE, failures |-> 0], [always |-> FALSE, failures |-> 0],
     [always |-> FALSE, failures |-> 1]}

\* the windows and the minutes between calls explored with deliveries: inside
\* and outside both cooldowns
CallWindows == {ZeroSet, StrongBear, Bull, DipOnly}

CallGaps == {4, 9}

CallIdle ==
    /\ callPc = "idle"
    /\ response = NoResponse
    /\ callErr = "none"
    /\ deliveries = 0
    /\ requests = <<>>

\* orders.go:613-636, 655: candles fetched, indicators computed,
\* detectTrendChange run and the response built; without a webhook to send the
\* call returns at once
CallStart(ind, gap, tg) ==
    /\ callPc \in {"idle", "returned"}
    /\ nEvals < MaxCalls
    /\ Evaluate(ind, gap)
    /\ response' = SignalResponseOf(ev')
    /\ deliveries' = 0
    /\ hookPc' = "idle"
    /\ attempt' = 0
    /\ calls' = 0
    /\ slept' = <<>>
    /\ hookResult' = "none"
    /\ IF WebhookDue(ev'.emitted, webhookURL)
       THEN callPc' = "hook" /\ callErr' = "none" /\ target' = tg
       ELSE callPc' = "returned" /\ callErr' = "nil" /\ UNCHANGED target
    /\ UNCHANGED <<maxRetries, requests>>

\* orders.go:620-623: GetCandles failed
CallFetchFails(gap) ==
    /\ callPc \in {"idle", "returned"}
    /\ nEvals < MaxCalls
    /\ nEvals' = nEvals + 1
    /\ now' = now + gap
    /\ callPc' = "returned"
    /\ callErr' = "fetch"
    /\ response' = NoResponse
    /\ deliveries' = 0
    /\ UNCHANGED <<lastTrendState, lastSignalTime, webhookURL, hadTrend, ev, prevEv,
                   hookVars, requests>>

\* orders.go:640: SendWebhook(response) runs inside the call
CallHook ==
    /\ callPc = "hook"
    /\ \/ SendWebhookEnter /\ deliveries' = deliveries + 1 /\ UNCHANGED requests
       \/ /\ SendWebhookAttempt
          /\ requests' = Append(requests, WebhookRequest(response))
          /\ UNCHANGED deliveries
       \/ SendWebhookSleep /\ UNCHANGED <<deliveries, requests>>
    /\ UNCHANGED <<trendVars, callPc, response, callErr>>

\* orders.go:640-655: SendWebhook has returned, the call returns
CallReturn ==
    /\ callPc = "hook"
    /\ hookPc = "done"
    /\ callPc' = "returned"
    /\ callErr' = PropagatedError(hookResult)
    /\ lastTrendState' = AfterDelivery(lastTrendState, ev.labelBefore, hookResult)
    /\ lastSignalTime' = AfterDelivery(lastSignalTime, ev.lastBefore, hookResult)
    /\ UNCHANGED <<webhookURL, now, nEvals, hadTrend, ev, prevEv, hookVars,
                   response, deliveries, requests>>

CallNext ==
    \/ \E ind \in CallWindows, gap \in CallGaps, tg \in CallTargets :
          CallStart(ind, gap, tg)
    \/ \E gap \in CallGaps : CallFetchFails(gap)
    \/ CallHook
    \/ CallReturn

\* C13: a notification failure is never propagated: a call whose candles
\* were fetched returns a nil error and the response built from its
\* evaluation, whether its delivery succeeded, failed on every attempt or was
\* not attempted.
C13_FailureNotPropagated ==
    (callPc = "returned" /\ callErr # "fetch") =>
        /\ callErr = "nil"
        /\ response = SignalResponseOf(ev)

C13_Witness ==
    /\ callPc = "returned"
    /\ deliveries = 1
    /\ hookResult = "error"
    /\ calls = maxRetries + 1
    /\ callErr = "nil"
    /\ response = SignalResponseOf(ev)

\* C14: delivery is fire-and-forget: the caller is never held inside the
\* evaluation call while a backoff sleep of its delivery is pending.
C14_CallerNeverWaits == ~(callPc = "hook" /\ hookPc = "sleep")

\* the requests made for the event of the current evaluation
RequestsOf(t) == {i \in 1 .. Len(requests) : requests[i].timestamp = t}

C16_BearishParamMatchesLabel ==
    \A i \in RequestsOf(ev.time) :
        (requests[i].bearish = "true") <=> (ev.trend = "bearish")

\* the TrendState an accepted transition leaves
LabelAfter(e) == IF e.path = "dip" THEN e.labelBefore ELSE e.trend

\* C17: an event whose delivery exhausted its retries is dropped: it gets
\* maxRetries+1 requests and no more, requests are never made for an earlier
\* event once a later evaluation has run, and the TrendState keeps the label
\* and lastSignalTime that the accepted transition set.
C17_DroppedNotRolledBack ==
    /\ \A i \in 1 .. Len(requests) :
          /\ Cardinality(RequestsOf(requests[i].timestamp)) <= maxRetries + 1
          /\ requests[i].timestamp <= ev.time
          /\ \A j \in 1 .. i : requests[j].timestamp <= requests[i].timestamp
    /\ (callPc # "hook" /\ prevEv.emitted /\ ~ev.emitted /\ ev.n = 2
          /\ callErr # "fetch") =>
          \A i \in 1 .. Len(requests) : requests[i].timestamp = prevEv.time
    /\ (hookResult = "error" /\ deliveries = 1) =>
          /\ lastSignalTime = ev.time
          /\ lastTrendState = LabelAfter(ev)

C17_Witness ==
    /\ maxRetries = 3
    /\ callPc = "returned"
    /\ nEvals = 2
    /\ prevEv.emitted
    /\ ~ev.emitted
    /\ Len(requests) = 4
    /\ \A i \in 1 .. 4 : requests[i].timestamp = prevEv.time
    /\ lastSignalTime = prevEv.time
    /\ lastTrendState = LabelAfter(prevEv)

(***************************************************************************)
(* Configuration: LoadTradingConfig reads WEBHOOK_MAX_RETRIES and          *)
(* WEBHOOK_TIMEOUT_SECONDS.  An environment value is unset (or empty), a   *)
(* text that is no number, a decimal number, or a number too large for an  *)
(* int.                                                                    *)
(***************************************************************************)
VARIABLES
    envRetries,   \* WEBHOOK_MAX_RETRIES
    envTimeout,   \* WEBHOOK_TIMEOUT_SECONDS
    cfgLoaded,
    cfgRetries,   \* config.WebhookMaxRetries
    cfgTimeout    \* config.WebhookTimeout

cfgVars == <<envRetries, envTimeout, cfgLoaded, cfgRetries, cfgTimeout>>

\* largest number given in the environment
EnvMax == 31

DefaultRetries == 3

DefaultTimeout == 5

Unset == [kind |-> "unset", n |-> 0]

EnvValues ==
    {Unset, [kind |-> "text", n |-> 0], [kind |-> "huge", n |-> 0]} \cup
    {[kind |-> "int", n |-> k] : k \in -1 .. EnvMax}

\* strconv.Atoi: the number and whether the text was one that fits an int
Atoi(v) == [n |-> IF v.kind = "int" THEN v.n ELSE 0, ok |-> v.kind = "int"]

\* trading.go:49-58
LoadRetries(v) ==
    IF v.kind = "unset" THEN DefaultRetries
    ELSE IF Atoi(v).ok /\ Atoi(v).n >= 0 THEN Atoi(v).n ELSE DefaultRetries

\* trading.go:61-70
LoadTimeout(v) ==
    IF v.kind = "unset" THEN DefaultTimeout
    ELSE IF Atoi(v).ok /\ Atoi(v).n > 0 THEN Atoi(v).n ELSE DefaultTimeout

CfgIdle ==
    /\ envRetries = Unset
    /\ envTimeout = Unset
    /\ cfgLoaded = FALSE
    /\ cfgRetries = 0
    /\ cfgTimeout = 0

CfgInit ==
    /\ envRetries \in EnvValues
    /\ envTimeout \in EnvValues
    /\ cfgLoaded = FALSE
    /\ cfgRetries = 0
    /\ cfgTimeout = 0

LoadTradingConfig ==
    /\ ~cfgLoaded
    /\ cfgLoaded' = TRUE
    /\ cfgRetries' = LoadRetries(envRetries)
    /\ cfgTimeout' = LoadTimeout(envTimeout)
    /\ UNCHANGED <<envRetries, envTimeout>>

\* C18: whatever the environment holds, the effective maxRetries lies in
\* 0..10 and the effective timeout in 1..30 seconds, and unset values or
\* values that are no number give the defaults 3 and 5.
C18_EffectiveInRange ==
    cfgLoaded =>
        /\ cfgRetries \in 0 .. 10
        /\ cfgTimeout \in 1 .. 30
        /\ envRetries.kind # "int" => cfgRetries = 3
        /\ envTimeout.kind # "int" => cfgTimeout = 5

(***************************************************************************)
(* Asset-value history: TrackAssetValue.  An entry is identified by the    *)
(* number of the call that appended it.                                    *)
(***************************************************************************)
VARIABLES
    assetValueHistory,
    tracked              \* TrackAssetValue calls that reached the append

assetVars == <<assetValueHistory, tracked>>

\* calls explored: enough to fill the history and evict
MaxTracks == 1002

HistoryCap == 1000

HistoryFullLate(n) == n > HistoryCap

\* client.go:175: if len(c.assetValueHistory) >= 1000
HistoryFull(n) == n >= HistoryCap

AssetIdle ==
    /\ assetValueHistory = <<>>
    /\ tracked = 0

\* client.go:123-182: the balances and the price are fetched (any of which
\* may fail and end the call), then the entry is appended under the lock
TrackAssetValue(fetched) ==
    /\ tracked < MaxTracks
    /\ IF fetched
       THEN /\ tracked' = tracked + 1
            /\ assetValueHistory' =
                  Append(IF HistoryFull(Len(assetValueHistory))
                         THEN Tail(assetValueHistory) ELSE assetValueHistory,
                         tracked + 1)
       ELSE UNCHANGED assetVars

AssetNext == \E fetched \in BOOLEAN : TrackAssetValue(fetched)

\* C19: the history never holds more than 1000 entries, and it holds the most
\* recently tracked entries in insertion order.
C19_LastThousandInOrder ==
    /\ Len(assetValueHistory) <= 1000
    /\ Len(assetValueHistory) = (IF tracked < 1000 THEN tracked ELSE 1000)
    /\ \A i \in 1 .. Len(assetValueHistory) :
          assetValueHistory[i] = tracked - Len(assetValueHistory) + i

C19_Witness ==
    /\ tracked = 1001
    /\ Len(assetValueHistory) = 1000
    /\ assetValueHistory[1] = 2
    /\ assetValueHistory[1000] = 1001

\* C20: the label is Neutral when the client is created, and in every
\* reachable state it is one of Neutral, Bullish, Bearish.
C20_LabelIsAState ==
    /\ nEvals = 0 => lastTrendState = "neutral"
    /\ lastTrendState \in {"neutral", "bullish", "bearish"}

(***************************************************************************)
(* Asset-value history under concurrent calls: TrackAssetValue runs in the *)
(* poller goroutine (checkSignal) and in the CheckSignal handler, and      *)
(* GetAssetValueHistory and GetAssetValueHistoryForPeriod in reporting     *)
(* requests.  Each statement that reads or writes the slice is a step of   *)
(* its own.                                                                *)
(***************************************************************************)
VARIABLES
    assetValueMutex,     \* sync.RWMutex: the writer holding it, the readers holding it
    apc,                 \* the statement each call is at
    aloc                 \* the locals of each call

lockVars == <<assetValueMutex, apc, aloc>>

Writers == {"poller", "http"}
Readers == {"report"}
PeriodReaders == {"graph"}
Calls == Writers \cup Readers \cup PeriodReaders

\* the entry a call of TrackAssetValue appends
EntryOf(p) ==
    IF p = "poller" THEN [by |-> "poller", Timestamp |-> HistoryCap + 1]
    ELSE [by |-> "http", Timestamp |-> HistoryCap + 1]

\* the zero AccountValue of make([]AccountValue, n)
ZeroEntry == [by |-> "none", Timestamp |-> 0]

\* the entry appended by an earlier call number k
Earlier(k) == [by |-> "earlier", Timestamp |-> k]

\* the periods a graph is asked for: all of the history, or the entries
\* stamped 2 to HistoryCap
Periods ==
    {[startTime |-> 0, endTime |-> HistoryCap + 2], [startTime |-> 1, endTime |-> HistoryCap + 1]}

\* client.go:207-208: avTime.After(startTime) && avTime.Before(endTime)
InPeriod(av, period) == av.Timestamp > period.startTime /\ av.Timestamp < period.endTime

ForPeriod(history, period) ==
    LET Within(av) == InPeriod(av, period) IN SelectSeq(history, Within)

\* lengths of the history when the concurrent calls start
StartLens == {0, 1, HistoryCap - 1, HistoryCap}

LockFree(mu) == TRUE

\* Lock() returns when no writer and no reader holds the mutex
CanLock(mu) == mu.writer = "none" /\ mu.readers = {}

\* RLock() returns when no writer holds the mutex
CanRLock(mu) == mu.writer = "none"

NoAssetLocals ==
    [slice |-> <<>>, n |-> 0, at |-> <<>>, result |-> <<>>, appended |-> FALSE,
     period |-> [startTime |-> 0, endTime |-> 0]]

LockIdle ==
    /\ assetValueMutex = [writer |-> "none", readers |-> {}]
    /\ apc = [p \in Calls |-> "done"]
    /\ aloc = [p \in Calls |-> NoAssetLocals]

\* the history holds the entries of n0 earlier calls
LockInit ==
    /\ \E n0 \in StartLens :
          /\ assetValueHistory = [i \in 1..n0 |-> Earlier(i)]
          /\ tracked = n0
    /\ assetValueMutex = [writer |-> "none", readers |-> {}]
    /\ apc = [p \in Calls |-> "idle"]
    /\ aloc = [p \in Calls |-> NoAssetLocals]

\* client.go:123-168: the balances and the price are fetched; a failure ends
\* the call before the lock
TrackFetch(p, fetched) ==
    /\ p \in Writers
    /\ apc[p] = "idle"
    /\ apc' = [apc EXCEPT ![p] = IF fetched THEN "lock" ELSE "done"]
    /\ UNCHANGED <<assetValueHistory, tracked, assetValueMutex, aloc>>

\* client.go:171: c.assetValueMutex.Lock()
TrackLock(p) ==
    /\ p \in Writers
    /\ apc[p] = "lock"
    /\ CanLock(assetValueMutex)
    /\ assetValueMutex' = [assetValueMutex EXCEPT !.writer = p]
    /\ apc' = [apc EXCEPT ![p] = "evict"]
    /\ UNCHANGED <<assetValueHistory, tracked, aloc>>

\* client.go:175-177: the oldest entry is dropped from a full history
TrackEvict(p) ==
    /\ p \in Writers
    /\ apc[p] = "evict"
    /\ assetValueHistory' = IF HistoryFull(Len(assetValueHistory))
                            THEN Tail(assetValueHistory) ELSE assetValueHistory
    /\ apc' = [apc EXCEPT ![p] = "load"]
    /\ UNCHANGED <<tracked, assetValueMutex, aloc>>

\* client.go:179: append reads the slice ...
TrackLoad(p) ==
    /\ p \in Writers
    /\ apc[p] = "load"
    /\ aloc' = [aloc EXCEPT ![p].slice = assetValueHistory]
    /\ apc' = [apc EXCEPT ![p] = "store"]
    /\ UNCHANGED <<assetValueHistory, tracked, assetValueMutex>>

\* ... and the assignment writes the longer slice back
TrackStore(p) ==
    /\ p \in Writers
    /\ apc[p] = "store"
    /\ assetValueHistory' = Append(aloc[p].slice, EntryOf(p))
    /\ tracked' = tracked + 1
    /\ aloc' = [aloc EXCEPT ![p].appended = TRUE]
    /\ apc' = [apc EXCEPT ![p] = "unlock"]
    /\ UNCHANGED assetValueMutex

\* client.go:172: the deferred Unlock()
TrackUnlock(p) ==
    /\ p \in Writers
    /\ apc[p] = "unlock"
    /\ assetValueMutex' = [assetValueMutex EXCEPT
                              !.writer = IF @ = p THEN "none" ELSE @]
    /\ apc' = [apc EXCEPT ![p] = "done"]
    /\ UNCHANGED <<assetValueHistory, tracked, aloc>>

\* client.go:191: c.assetValueMutex.RLock()
ReadRLock(p) ==
    /\ p \in Readers
    /\ apc[p] = "idle"
    /\ CanRLock(assetValueMutex)
    /\ assetValueMutex' = [assetValueMutex EXCEPT !.readers = @ \cup {p}]
    /\ aloc' = [aloc EXCEPT ![p].at = assetValueHistory]
    /\ apc' = [apc EXCEPT ![p] = "make"]
    /\ UNCHANGED <<assetValueHistory, tracked>>

\* client.go:195: result := make([]AccountValue, len(c.assetValueHistory))
ReadMake(p) ==
    /\ p \in Readers
    /\ apc[p] = "make"
    /\ aloc' = [aloc EXCEPT ![p].n = Len(assetValueHistory)]
    /\ apc' = [apc EXCEPT ![p] = "copy"]
    /\ UNCHANGED <<assetValueHistory, tracked, assetValueMutex>>

\* client.go:196: copy(result, c.assetValueHistory)
ReadCopy(p) ==
    /\ p \in Readers
    /\ apc[p] = "copy"
    /\ aloc' = [aloc EXCEPT ![p].result =
                   [i \in 1..aloc[p].n |->
                       IF i <= Len(assetValueHistory)
                       THEN assetValueHistory[i] ELSE ZeroEntry]]
    /\ apc' = [apc EXCEPT ![p] = "runlock"]
    /\ UNCHANGED <<assetValueHistory, tracked, assetValueMutex>>

\* client.go:192, 197: the deferred RUnlock(), return result
ReadRUnlock(p) ==
    /\ p \in Readers
    /\ apc[p] = "runlock"
    /\ assetValueMutex' = [assetValueMutex EXCEPT !.readers = @ \ {p}]
    /\ apc' = [apc EXCEPT ![p] = "done"]
    /\ UNCHANGED <<assetValueHistory, tracked, aloc>>

\* client.go:202: c.assetValueMutex.RLock() in GetAssetValueHistoryForPeriod
PeriodRLock(p, period) ==
    /\ p \in PeriodReaders
    /\ apc[p] = "idle"
    /\ CanRLock(assetValueMutex)
    /\ assetValueMutex' = [assetValueMutex EXCEPT !.readers = @ \cup {p}]
    /\ aloc' = [aloc EXCEPT ![p].at = assetValueHistory, ![p].period = period]
    /\ apc' = [apc EXCEPT ![p] = "range"]
    /\ UNCHANGED <<assetValueHistory, tracked>>

\* client.go:206: the range expression is evaluated once
PeriodRange(p) ==
    /\ p \in PeriodReaders
    /\ apc[p] = "range"
    /\ aloc' = [aloc EXCEPT ![p].slice = assetValueHistory]
    /\ apc' = [apc EXCEPT ![p] = "filter"]
    /\ UNCHANGED <<assetValueHistory, tracked, assetValueMutex>>

\* client.go:206-211: the entries inside the period are appended to result
PeriodFilter(p) ==
    /\ p \in PeriodReaders
    /\ apc[p] = "filter"
    /\ aloc' = [aloc EXCEPT ![p].result = ForPeriod(aloc[p].slice, aloc[p].period)]
    /\ apc' = [apc EXCEPT ![p] = "runlock"]
    /\ UNCHANGED <<assetValueHistory, tracked, assetValueMutex>>

\* client.go:203, 212: the deferred RUnlock(), return result
PeriodRUnlock(p) ==
    /\ p \in PeriodReaders
    /\ apc[p] = "runlock"
    /\ assetValueMutex' = [assetValueMutex EXCEPT !.readers = @ \ {p}]
    /\ apc' = [apc EXCEPT ![p] = "done"]
    /\ UNCHANGED <<assetValueHistory, tracked, aloc>>

LockNext ==
    \/ \E p \in Writers, fetched \in BOOLEAN : TrackFetch(p, fetched)
    \/ \E p \in Writers : TrackLock(p)
    \/ \E p \in Writers : TrackEvict(p)
    \/ \E p \in Writers : TrackLoad(p)
    \/ \E p \in Writers : TrackStore(p)
    \/ \E p \in Writers : TrackUnlock(p)
    \/ \E p \in Readers : ReadRLock(p)
    \/ \E p \in Readers : ReadMake(p)
    \/ \E p \in Readers : ReadCopy(p)
    \/ \E p \in Readers : ReadRUnlock(p)
    \/ \E p \in PeriodReaders, period \in Periods : PeriodRLock(p, period)
    \/ \E p \in PeriodReaders : PeriodRange(p)
    \/ \E p \in PeriodReaders : PeriodFilter(p)
    \/ \E p \in PeriodReaders : PeriodRUnlock(p)

\* the call is between its Lock and its Unlock
Writing(p) == apc[p] \in {"evict", "load", "store", "unlock"}
\* the call is between its RLock and its RUnlock
Reading(p) == apc[p] \in {"make", "copy", "range", "filter", "runlock"}

Appended(p) == \E i \in 1..Len(assetValueHistory) : assetValueHistory[i] = EntryOf(p)

\* C30: the evict-and-append step of TrackAssetValue never interleaves with
\* another append or with a read: at most one call writes at a time and none
\* reads meanwhile; no append is lost (outside a write the history holds the
\* last 1000 entries tracked, every finished append among them); and a
\* reader returns the whole history as it was when it took the lock (the
\* period reader: its entries inside the period).
C30_HistoryMutuallyExclusive ==
    /\ \A p, q \in Writers : (Writing(p) /\ Writing(q)) => p = q
    /\ \A p \in Writers, r \in Readers \cup PeriodReaders : ~(Writing(p) /\ Reading(r))
    /\ (\A p \in Writers : ~Writing(p)) =>
          /\ Len(assetValueHistory) = (IF tracked < 1000 THEN tracked ELSE 1000)
          /\ \A p \in Writers : aloc[p].appended => Appended(p)
    /\ \A r \in Readers :
          apc[r] \in {"runlock", "done"} =>
              /\ aloc[r].result = aloc[r].at
              /\ \A i \in 1..Len(aloc[r].result) : aloc[r].result[i] # ZeroEntry
    /\ \A r \in PeriodReaders :
          apc[r] \in {"runlock", "done"} =>
              aloc[r].result = ForPeriod(aloc[r].at, aloc[r].period)

\* both calls appended to a full history while a reader waited and then
\* read it
C30_Witness ==
    /\ \A p \in Writers : apc[p] = "done" /\ aloc[p].appended
    /\ apc["report"] = "done"
    /\ Len(aloc["report"].result) = 1000
    /\ aloc["report"].result[1000] = EntryOf("http")
    /\ aloc["report"].result[999] = EntryOf("poller")
    /\ Len(assetValueHistory) = 1000
    /\ apc["graph"] = "done"
    /\ Len(aloc["graph"].result) = 998
    /\ aloc["graph"].result[998] = Earlier(1000)

(***************************************************************************)
(* Background poller: src/unnamed/part_003 startSignalPolling.  The wall   *)
(* clock is `now`; a call of sendStartupWebhook or checkSignal evaluates   *)
(* at the moment it starts and keeps the poller busy until busyUntil.      *)
(***************************************************************************)
VARIABLES
    pollPc,       \* "startup", "initial", "wait" (in for range ticker.C)
    tickerC,      \* ticks waiting in ticker.C (a channel of capacity 1)
    tickCount,    \* ticks of the ticker elapsed since startup
    pollRuns,     \* checkSignal runs started from the loop
    busyUntil,    \* when the running call returns
    pollHooks     \* the webhook requests made so far: "startup" or "signal"

pollVars == <<pollPc, tickerC, tickCount, pollRuns, busyUntil, pollHooks>>

\* time.NewTicker(10 * time.Minute)
TickerMinutes == 10

\* the clock advances by half a ticker period
PollStep == TickerMinutes \div 2

\* minutes of wall clock explored after startup
MaxPollMinutes == 40

PollWindows == {ZeroSet, StrongBear, Bull}

\* how long a call lasts: a call whose evaluation emits an event runs
\* SendWebhook before it returns (its retries and backoff are not limited
\* from above), any other call returns at once
RunMinutes(delivers) ==
    IF delivers THEN {0, PollStep, 2 * TickerMinutes + PollStep} ELSE {0}

PollIdle ==
    /\ pollPc = "off"
    /\ tickerC = 0
    /\ tickCount = 0
    /\ pollRuns = 0
    /\ busyUntil = 0
    /\ pollHooks = <<>>

\* part_003:128-131, 264: the poller is started only with a webhook URL
PollInit ==
    /\ pollPc = "startup"
    /\ tickerC = 0
    /\ tickCount = 0
    /\ pollRuns = 0
    /\ busyUntil = StartTime
    /\ pollHooks = <<>>

\* the poller can take its next statement now
PollReady ==
    /\ now >= busyUntil
    /\ \/ pollPc \in {"startup", "initial"}
       \/ pollPc = "wait" /\ tickerC = 1

\* GetSignalLightweight inside a call of the poller: on a fetch error nothing
\* is evaluated; otherwise GetSignalWithCandles evaluates and, on a trend
\* change, runs SendWebhook before it returns
PollSignal(ind, fetched, d) ==
    /\ IF fetched
       THEN /\ Evaluate(ind, 0)
            /\ d \in RunMinutes(WebhookDue(ev'.emitted, webhookURL))
       ELSE /\ d = 0
            /\ UNCHANGED trendVars
    /\ busyUntil' = now + d

\* part_003:284-344 sendStartupWebhook
PollStartup(ind, fetched, d) ==
    /\ pollPc = "startup"
    /\ PollReady
    /\ PollSignal(ind, fetched, d)
    /\ pollHooks' = IF fetched
                    THEN pollHooks
                            \o (IF WebhookDue(ev'.emitted, webhookURL)
                                THEN <<"signal">> ELSE <<>>)
                            \o <<"startup">>
                    ELSE pollHooks
    /\ pollPc' = "initial"
    /\ UNCHANGED <<tickerC, tickCount, pollRuns>>

\* part_003:362-406 checkSignal
checkSignal(ind, fetched, d) ==
    /\ PollSignal(ind, fetched, d)
    /\ pollHooks' = IF fetched /\ WebhookDue(ev'.emitted, webhookURL)
                    THEN Append(pollHooks, "signal") ELSE pollHooks

\* part_003:275: the initial check
PollInitialCheck(ind, fetched, d) ==
    /\ pollPc = "initial"
    /\ PollReady
    /\ checkSignal(ind, fetched, d)
    /\ pollPc' = "wait"
    /\ UNCHANGED <<tickerC, tickCount, pollRuns>>

\* part_003:278-280: for range ticker.C { checkSignal(client) }
PollTick(ind, fetched, d) ==
    /\ pollPc = "wait"
    /\ PollReady
    /\ tickerC' = 0
    /\ pollRuns' = pollRuns + 1
    /\ checkSignal(ind, fetched, d)
    /\ UNCHANGED <<pollPc, tickCount>>

\* the wall clock advances while the poller is busy or waits for a tick; at
\* each period the ticker puts a tick into ticker.C unless one is waiting
\* there already, in which case the tick is dropped
PollElapse ==
    /\ ~PollReady
    /\ now + PollStep <= StartTime + MaxPollMinutes
    /\ now' = now + PollStep
    /\ IF (now' - StartTime) % TickerMinutes = 0
       THEN tickCount' = tickCount + 1 /\ tickerC' = 1
       ELSE UNCHANGED <<tickCount, tickerC>>
    /\ UNCHANGED <<lastTrendState, lastSignalTime, webhookURL, nEvals, hadTrend, ev, prevEv,
                   pollPc, pollRuns, busyUntil, pollHooks>>

PollNext ==
    \/ \E ind \in PollWindows, fetched \in BOOLEAN, d \in RunMinutes(TRUE) :
          PollStartup(ind, fetched, d)
    \/ \E ind \in PollWindows, fetched \in BOOLEAN, d \in RunMinutes(TRUE) :
          PollInitialCheck(ind, fetched, d)
    \/ \E ind \in PollWindows, fetched \in BOOLEAN, d \in RunMinutes(TRUE) :
          PollTick(ind, fetched, d)
    \/ PollElapse

\* C31: a slow iteration delays but never skips a tick: whenever the poller
\* has caught up (it waits in the loop and no tick is pending), the number of
\* checkSignal runs started from the loop equals the number of ticks elapsed.
C31_EveryTickRun ==
    (pollPc = "wait" /\ tickerC = 0 /\ now >= busyUntil) => pollRuns = tickCount

\* C39: the startup notification only reports the current trend: when
\* sendStartupWebhook has returned, label and lastSignalTime are those of
\* NewCoinbaseClient and no regular SignalEvent webhook has been sent, so the
\* initial checkSignal evaluates against the initial TrendState.
C39_StartupLeavesTrendState ==
    pollPc = "initial" =>
        /\ lastTrendState = InitialTrendState
        /\ lastSignalTime = ZeroTime
        /\ \A i \in 1..Len(pollHooks) : pollHooks[i] # "signal"

(***************************************************************************)
(* Indicator functions on candle series.  A float64 is modelled by an      *)
(* exact fraction n/d in lowest terms with d > 0; d = 0 stands for the     *)
(* non-finite results of a division by zero: NaN (0/0) and +-Inf.          *)
(***************************************************************************)
RECURSIVE GCD(_, _)
GCD(a, b) == IF b = 0 THEN a ELSE GCD(b, a % b)

Frac(n, d) ==
    LET g == GCD(Abs(n), Abs(d))
        sgn == IF d < 0 THEN -1 ELSE 1
    IN  IF g = 0 THEN [n |-> 0, d |-> 0]
        ELSE [n |-> sgn * (n \div g), d |-> sgn * (d \div g)]

F(i) == [n |-> i, d |-> 1]
NaN == [n |-> 0, d |-> 0]
IsFinite(x) == x.d # 0

FAdd(x, y) == IF IsFinite(x) /\ IsFinite(y) THEN Frac(x.n * y.d + y.n * x.d, x.d * y.d) ELSE NaN
FSub(x, y) == IF IsFinite(x) /\ IsFinite(y) THEN Frac(x.n * y.d - y.n * x.d, x.d * y.d) ELSE NaN
FMul(x, y) == IF IsFinite(x) /\ IsFinite(y) THEN Frac(x.n * y.n, x.d * y.d) ELSE NaN
\* x / y of float64: a zero divisor gives NaN or +-Inf and no panic
FDiv(x, y) ==
    IF ~(IsFinite(x) /\ IsFinite(y)) THEN NaN
    ELSE IF y.n = 0 THEN [n |-> IF x.n > 0 THEN 1 ELSE IF x.n < 0 THEN -1 ELSE 0, d |-> 0]
    ELSE Frac(x.n * y.d, x.d * y.n)
FAbs(x) == [n |-> Abs(x.n), d |-> x.d]
\* comparisons with NaN are false
FLess(x, y) == IsFinite(x) /\ IsFinite(y) /\ x.n * y.d < y.n * x.d
FMax(x, y) == IF FLess(x, y) THEN y ELSE x

RECURSIVE SumRange(_, _, _)
\* xs[lo] + ... + xs[hi], the range halved to keep the evaluation shallow
SumRange(xs, lo, hi) ==
    IF lo > hi THEN F(0)
    ELSE IF lo = hi THEN xs[lo]
    ELSE FAdd(SumRange(xs, lo, (lo + hi) \div 2), SumRange(xs, (lo + hi) \div 2 + 1, hi))

\* for i := 0; i < k; i++ { sum += xs[i] }
SumTo(xs, k) == SumRange(xs, 1, k)

RECURSIVE emaLoop(_, _, _, _, _)
\* for i := lo; i <= hi; i++ { ema = prices[i]*multiplier + ema*(1-multiplier) };
\* the range is halved and the first half computed (the test of half.d) before
\* the second starts, which keeps the evaluation shallow
emaLoop(prices, lo, hi, ema, multiplier) ==
    IF lo > hi THEN ema
    ELSE IF lo = hi
    THEN FAdd(FMul(prices[lo], multiplier), FMul(ema, FSub(F(1), multiplier)))
    ELSE LET half == emaLoop(prices, lo, (lo + hi) \div 2, ema, multiplier)
         IN  IF half.d >= 0 THEN emaLoop(prices, (lo + hi) \div 2 + 1, hi, half, multiplier)
             ELSE half

calculateEMA(prices, period) ==
    IF Len(prices) < period THEN F(0)
    ELSE emaLoop(prices, period + 1, Len(prices),
                 FDiv(SumTo(prices, period), F(period)), Frac(2, period + 1))

calculateMACD(prices) ==
    IF Len(prices) < 26 THEN [macd |-> F(0), signalLine |-> F(0)]
    ELSE LET macdValues ==
                 IF Len(prices) = 26 THEN <<>>
                 ELSE [k \in 1..(Len(prices) - 26) |->
                          FSub(calculateEMA(SubSeq(prices, 1, k + 26), 12),
                               calculateEMA(SubSeq(prices, 1, k + 26), 26))]
         IN  [macd |-> FSub(calculateEMA(prices, 12), calculateEMA(prices, 26)),
              signalLine |-> calculateEMA(macdValues, 9)]

RECURSIVE rsiSums(_, _, _)
\* gains and losses over the first period changes
rsiSums(prices, i, acc) ==
    IF i = 0 THEN acc
    ELSE LET change == FSub(prices[i + 1], prices[i])
             prev == rsiSums(prices, i - 1, acc)
         IN  IF FLess(F(0), change)
             THEN [gains |-> FAdd(prev.gains, change), losses |-> prev.losses]
             ELSE [gains |-> prev.gains, losses |-> FAdd(prev.losses, FAbs(change))]

RECURSIVE rsiSmooth(_, _, _, _, _)
\* avgGain and avgLoss smoothed over the changes lo..hi, the range halved as
\* in emaLoop
rsiSmooth(prices, lo, hi, avg, multiplier) ==
    IF lo > hi THEN avg
    ELSE IF lo = hi
    THEN LET change == FSub(prices[lo], prices[lo - 1])
             gain == IF FLess(F(0), change) THEN change ELSE F(0)
             loss == IF FLess(F(0), change) THEN F(0) ELSE FAbs(change)
             keep == FSub(F(1), multiplier)
         IN  [gain |-> FAdd(FMul(avg.gain, keep), FMul(gain, multiplier)),
              loss |-> FAdd(FMul(avg.loss, keep), FMul(loss, multiplier))]
    ELSE LET half == rsiSmooth(prices, lo, (lo + hi) \div 2, avg, multiplier)
         IN  IF half.gain.d >= 0 /\ half.loss.d >= 0
             THEN rsiSmooth(prices, (lo + hi) \div 2 + 1, hi, half, multiplier)
             ELSE half

calculateRSI(prices, period) ==
    IF Len(prices) < period + 1 THEN F(50)
    ELSE LET s == rsiSums(prices, period, [gains |-> F(0), losses |-> F(0)])
         IN  IF s.losses.n = 0 THEN F(100)
             ELSE LET avg == rsiSmooth(prices, period + 2, Len(prices),
                                       [gain |-> FDiv(s.gains, F(period)),
                                        loss |-> FDiv(s.losses, F(period))],
                                       Frac(1, period))
                  IN  IF avg.loss.n = 0 THEN F(100)
                      ELSE FSub(F(100), FDiv(F(100), FAdd(F(1), FDiv(avg.gain, avg.loss))))

RECURSIVE adxSums(_, _, _)
\* plusDM, minusDM and trueRange over candles 1..period
adxSums(highs, lows, i) ==
    IF i = 0 THEN [plusDM |-> F(0), minusDM |-> F(0), trueRange |-> F(0)]
    ELSE LET prev == adxSums(highs, lows, i - 1)
             tr == FMax(FSub(highs[i + 1], lows[i + 1]),
                        FMax(FAbs(FSub(highs[i + 1], highs[i])),
                             FAbs(FSub(lows[i + 1], lows[i]))))
             upMove == FSub(highs[i + 1], highs[i])
             downMove == FSub(lows[i], lows[i + 1])
         IN  [plusDM |-> IF FLess(downMove, upMove) /\ FLess(F(0), upMove)
                         THEN FAdd(prev.plusDM, upMove) ELSE prev.plusDM,
              minusDM |-> IF FLess(upMove, downMove) /\ FLess(F(0), downMove)
                          THEN FAdd(prev.minusDM, downMove) ELSE prev.minusDM,
              trueRange |-> FAdd(prev.trueRange, tr)]

\* the divisor of dx, plusDI + minusDI
adxDivisor(highs, lows, period) ==
    LET s == adxSums(highs, lows, period)
    IN  FAdd(FMul(FDiv(s.plusDM, s.trueRange), F(100)),
             FMul(FDiv(s.minusDM, s.trueRange), F(100)))

calculateADX(highs, lows, period) ==
    IF Len(highs) < period + 1 \/ Len(lows) < period + 1 THEN F(0)
    ELSE LET s == adxSums(highs, lows, period)
         IN  IF s.trueRange.n = 0 THEN F(0)
             ELSE LET plusDI == FMul(FDiv(s.plusDM, s.trueRange), F(100))
                      minusDI == FMul(FDiv(s.minusDM, s.trueRange), F(100))
                  IN  FMul(FDiv(FAbs(FSub(plusDI, minusDI)), FAdd(plusDI, minusDI)), F(100))

calculatePriceDropPctClamped(prices, period) ==
    IF Len(prices) < 2 THEN F(0)
    ELSE LET oldPrice == prices[IF Len(prices) > period THEN Len(prices) - period ELSE 1]
             newPrice == prices[Len(prices)]
         IN  IF oldPrice.n = 0 THEN F(0)
             ELSE FMul(FDiv(FSub(newPrice, oldPrice), oldPrice), F(100))

calculatePriceDropPct(prices, period) ==
    IF Len(prices) < period + 1 THEN F(0)
    ELSE LET oldPrice == prices[Len(prices) - period]
             newPrice == prices[Len(prices)]
         IN  IF oldPrice.n = 0 THEN F(0)
             ELSE FMul(FDiv(FSub(newPrice, oldPrice), oldPrice), F(100))

SpikeExceedsOrEquals(lastVolume, averageVolume) == ~FLess(lastVolume, FMul(averageVolume, F(2)))

\* technical.go:186
SpikeExceeds(lastVolume, averageVolume) == FLess(FMul(averageVolume, F(2)), lastVolume)

detectVolumeSpike(volumes) ==
    IF Len(volumes) < 2
    THEN [volumeSpike |-> FALSE, averageVolume |-> F(0), lastVolume |-> F(0)]
    ELSE LET lastVolume == volumes[Len(volumes)]
             averageVolume == FDiv(SumTo(volumes, Len(volumes) - 1), F(Len(volumes) - 1))
         IN  [volumeSpike |-> SpikeExceeds(lastVolume, averageVolume),
              averageVolume |-> averageVolume, lastVolume |-> lastVolume]

VARIABLES
    window,          \* the candle series the functions are applied to
    calcDone,
    calc             \* the results of the indicator functions

indVars == <<window, calcDone, calc>>

\* a candle series: close, high and low prices on straight lines, a volume
\* level v (alternating by valt) and a last volume vlast
CandleWindow(n, c, s, hc, hs, lc, ls, v, valt, vlast) ==
    [n |-> n, c |-> c, s |-> s, hc |-> hc, hs |-> hs, lc |-> lc, ls |-> ls,
     v |-> v, valt |-> valt, vlast |-> vlast]

Series(n, first, slope) == [i \in 1..n |-> F(first + slope * (i - 1))]

PricesOf(w) == IF w.n = 0 THEN <<>> ELSE Series(w.n, w.c, w.s)
HighsOf(w) == IF w.n = 0 THEN <<>> ELSE Series(w.n, w.hc, w.hs)
LowsOf(w) == IF w.n = 0 THEN <<>> ELSE Series(w.n, w.lc, w.ls)
VolumesOf(w) ==
    IF w.n = 0 THEN <<>>
    ELSE [i \in 1..w.n |-> IF i = w.n THEN F(w.vlast) ELSE F(w.v + w.valt * (i % 2))]

LongLen == 200

\* short series for the volume rule
VolumeWindows ==
    {CandleWindow(n, 100, 0, 101, 0, 99, 0, v, valt, vlast) :
        n \in {0, 1, 2, 3, 5}, v \in {0, 10}, valt \in {0, 1},
        vlast \in {0, 19, 20, 21, 22, 23}}

\* windows of the minimum length: rising, flat and falling closes from zero
\* and from 500; highs and lows flat, rising, falling, narrowing and widening
ShapeWindows ==
    {CandleWindow(50, c, s, 600, hl[1], 400, hl[2], 10, 0, vlast) :
        c \in {0, 500}, s \in {0, 2}, vlast \in {20, 21},
        hl \in {<<0, 0>>, <<1, 1>>, <<-1, -1>>, <<-1, 1>>, <<1, -1>>}}
    \cup {CandleWindow(50, 500, -2, 600, hl[1], 400, hl[2], 10, 0, 21) :
             hl \in {<<0, 0>>, <<-1, -1>>, <<-1, 1>>}}

\* monotonic windows long enough for EMA200 and the 144-candle change
RisingWindow == CandleWindow(LongLen, 1090, 2, 1091, 2, 1089, 2, 10, 0, 20)
FallingWindow == CandleWindow(LongLen, 1310, -2, 1311, -2, 1309, -2, 10, 0, 20)
LongWindows == {RisingWindow, FallingWindow}

\* GetSignalLightweight: GetSignalWithCandles(144, "FIVE_MINUTE")
LightweightLen == 144

\* priceDropPeriod := 144
PriceDropPeriod == 144

\* the poller's window, rising, flat and falling, and a window one candle longer
LightweightWindows ==
    {CandleWindow(n, 1000, s, 1001, s, 999, s, 10, 0, 20) :
        n \in {LightweightLen, LightweightLen + 1}, s \in {-2, 0, 3}}

CandleWindows == VolumeWindows \cup ShapeWindows \cup LongWindows \cup LightweightWindows

NoCalc ==
    [macd |-> F(0), signalLine |-> F(0), ema12 |-> F(0), ema26 |-> F(0),
     ema200 |-> F(0), rsi |-> F(0), adx |-> F(0), priceDropPct12h |-> F(0),
     volumeSpike |-> FALSE, averageVolume |-> F(0), lastVolume |-> F(0)]

\* what the eight producers compute from one window (technical.go:233-383)
IndicatorsOf(w) ==
    LET m == calculateMACD(PricesOf(w))
        vs == detectVolumeSpike(VolumesOf(w))
    IN  [macd |-> m.macd, signalLine |-> m.signalLine,
         ema12 |-> calculateEMA(PricesOf(w), 12),
         ema26 |-> calculateEMA(PricesOf(w), 26),
         ema200 |-> calculateEMA(PricesOf(w), 200),
         rsi |-> calculateRSI(PricesOf(w), 14),
         adx |-> calculateADX(HighsOf(w), LowsOf(w), 14),
         priceDropPct12h |-> calculatePriceDropPct(PricesOf(w), PriceDropPeriod),
         volumeSpike |-> vs.volumeSpike, averageVolume |-> vs.averageVolume,
         lastVolume |-> vs.lastVolume]

IndIdle ==
    /\ window = CandleWindow(0, 0, 0, 0, 0, 0, 0, 0, 0, 0)
    /\ calcDone = FALSE
    /\ calc = NoCalc

IndInit ==
    /\ window \in CandleWindows
    /\ calcDone = FALSE
    /\ calc = NoCalc

ComputeIndicators ==
    /\ ~calcDone
    /\ calcDone' = TRUE
    /\ calc' = IndicatorsOf(window)
    /\ UNCHANGED window

RECURSIVE IntSum(_, _)
IntSum(f, k) == IF k = 0 THEN 0 ELSE f[k] + IntSum(f, k - 1)

\* the volumes of the window as plain integers
RawVolumes == [i \in 1..window.n |-> IF i = window.n THEN window.vlast
                                     ELSE window.v + window.valt * (i % 2)]

\* C24: VolumeSpike is true exactly when the last volume is strictly greater
\* than twice the mean of all volumes except the last (last * (n-1) >
\* 2 * sum of the others); exactly twice the mean gives false, and a series
\* of fewer than 2 volumes gives false.
C24_SpikeStrictlyAboveTwiceMean ==
    calcDone =>
        calc.volumeSpike =
            (/\ window.n >= 2
             /\ window.vlast * (window.n - 1) > 2 * IntSum(RawVolumes, window.n - 1))

\* a last volume of exactly twice the mean of the others: no spike
C24_Witness ==
    /\ calcDone
    /\ window.n >= 2
    /\ window.v > 0
    /\ window.vlast * (window.n - 1) = 2 * IntSum(RawVolumes, window.n - 1)
    /\ ~calc.volumeSpike

\* C29: no indicator computation divides by zero for a candle window of 50
\* candles or more, flat windows and windows with zero prices included: every
\* result is a finite number, none the NaN or Inf of a division by zero.
C29_NoDivisionByZero ==
    (calcDone /\ window.n >= 50) =>
        /\ IsFinite(calc.macd) /\ IsFinite(calc.signalLine)
        /\ IsFinite(calc.ema12) /\ IsFinite(calc.ema26) /\ IsFinite(calc.ema200)
        /\ IsFinite(calc.rsi)
        /\ IsFinite(calc.adx)
        /\ IsFinite(calc.priceDropPct12h)
        /\ IsFinite(calc.averageVolume) /\ IsFinite(calc.lastVolume)

\* C40: the percent change over N candles is 0 whenever the series has
\* fewer than N + 1 entries: with N = 144 the 144-candle window of
\* GetSignalLightweight yields a change of 0 whatever its prices are.
C40_ShortSeriesChangeIsZero ==
    calcDone =>
        /\ window.n < PriceDropPeriod + 1 => calc.priceDropPct12h = F(0)
        /\ window.n = LightweightLen => calc.priceDropPct12h = F(0)

\* a lightweight window whose closes rise from 1000 to 1429: change 0
C40_Witness ==
    /\ calcDone
    /\ window.n = LightweightLen
    /\ window.s > 0
    /\ PricesOf(window)[window.n].n > PricesOf(window)[1].n
    /\ calc.priceDropPct12h = F(0)
    /\ calc.ema12.n > 0

(***************************************************************************)
(* Signal Evaluator on a grid of IndicatorSets: values on both sides of    *)
(* the thresholds the scores use, and the zero EMA200 of a window shorter  *)
(* than 200 candles.  One IndicatorSet is evaluated by detectTrendChange   *)
(* EvalRuns times, each time on a client in some TrendState and at some    *)
(* time.                                                                   *)
(***************************************************************************)
VARIABLES
    sample,          \* the IndicatorSet evaluated
    evaluated,
    bearishScore,
    bullishScore,
    label,           \* currentTrend, the result of determineTrendState
    runs,            \* evaluations of sample so far
    firstRun,        \* the first evaluation of sample
    lastRun          \* the latest evaluation of sample

evalVars == <<sample, evaluated, bearishScore, bullishScore, label, runs, firstRun, lastRun>>

EvalRuns == 2

\* a decline without momentum: MACD 0.05 under a signal line of 0.10, price
\* 20% under EMA200, RSI 50, a 4% drop on a volume spike, ADX 30
QuietBear == IndicatorSet(5, 10, 100, 100, 100, 50, 30, -4, TRUE, 80)

SampleSets ==
    Windows \cup {QuietBear} \cup
    {IndicatorSet(macd, 0, e12, 100, e200, rsi, adx, drop, spike, price) :
        macd \in {-20, -3, 20}, e12 \in {90, 100, 110}, e200 \in {0, 100},
        rsi \in {20, 38, 58, 65}, adx \in {20, 30},
        drop \in {-8, 0, 4}, spike \in BOOLEAN, price \in {90, 110}}

\* TrendStates a client can be in when detectTrendChange is called
Contexts ==
    {[label |-> InitialTrendState, last |-> ZeroTime]}
        \cup {[label |-> l, last |-> StartTime] : l \in {"bullish", "bearish"}}

EvalGaps == {4, 8, 9}

NoRun ==
    [n |-> 0, label |-> InitialTrendState, last |-> ZeroTime, time |-> ZeroTime,
     currentTrend |-> "neutral", dip |-> FALSE, emitted |-> FALSE,
     trend |-> "neutral", triggers |-> <<>>, path |-> "none"]

EvalIdle ==
    /\ sample = ZeroSet
    /\ evaluated = FALSE
    /\ bearishScore = 0
    /\ bullishScore = 0
    /\ label = "neutral"
    /\ runs = 0
    /\ firstRun = NoRun
    /\ lastRun = NoRun

EvalInit ==
    /\ sample \in SampleSets
    /\ evaluated = FALSE
    /\ bearishScore = 0
    /\ bullishScore = 0
    /\ label = "neutral"
    /\ runs = 0
    /\ firstRun = NoRun
    /\ lastRun = NoRun

\* detectTrendChange(sample) on a client in TrendState ctx, gap minutes
\* after StartTime
EvaluateSample(ctx, gap) ==
    /\ runs < EvalRuns
    /\ \E r \in {detectTrendChange(ctx.label, ctx.last, sample, StartTime + gap)} :
        \E run \in {[n |-> runs + 1, label |-> ctx.label, last |-> ctx.last,
                     time |-> StartTime + gap, currentTrend |-> r.currentTrend,
                     dip |-> r.dip, emitted |-> r.emitted, trend |-> r.trend,
                     triggers |-> r.triggers, path |-> r.path]} :
            /\ label' = r.currentTrend
            /\ lastRun' = run
            /\ firstRun' = IF runs = 0 THEN run ELSE firstRun
    /\ evaluated' = TRUE
    /\ bearishScore' = calculateBearishScore(sample)
    /\ bullishScore' = calculateBullishScore(sample)
    /\ runs' = runs + 1
    /\ UNCHANGED sample

EvalNext == \E ctx \in Contexts, gap \in EvalGaps : EvaluateSample(ctx, gap)

\* C22: the label is Bearish whenever bearishScore >= 7.0, otherwise Bullish
\* whenever bullishScore >= 7.0, otherwise Neutral; 7.0 itself counts.
C22_LabelByScores ==
    evaluated =>
        label = (IF bearishScore >= 7000 THEN "bearish"
                 ELSE IF bullishScore >= 7000 THEN "bullish"
                 ELSE "neutral")

\* a bearish score of exactly 7.0
C22_Witness ==
    /\ evaluated
    /\ bearishScore = 7000
    /\ label = "bearish"

ShortWindowSet == sample.EMA200 = 0 /\ sample.CurrentPrice > 0 /\ sample.EMA26 > 0

\* C37: the score computations never divide by zero: bearishScore,
\* bullishScore and the dip score are finite for every IndicatorSet of a
\* window of 50 to 199 candles (zero EMA200), and a zero EMA200 contributes nothing
\* to the bullish score (the score is what it is with the price at EMA200).
C37_ScoresFinite ==
    (evaluated /\ ShortWindowSet) =>
        /\ bearishScore < PosInf
        /\ bullishScore < PosInf
        /\ dipScore(sample) < PosInf
        /\ sample.EMA200 = 0 =>
              bullishScore =
                  calculateBullishScore([sample EXCEPT !.EMA200 = sample.CurrentPrice])

\* C38: every SignalEvent emitted by an accepted transition carries a
\* non-empty trigger list.
C38_EventsCarryTriggers ==
    lastRun.emitted => lastRun.triggers # <<>>

(***************************************************************************)
(* Indicator Engine: calculateTechnicalIndicatorsParallel, one call.  The  *)
(* eight producer goroutines publish the fields of the window's full       *)
(* IndicatorSet on resultChan; the stream processor stores them as they    *)
(* arrive and checks for an early bearish signal.                          *)
(***************************************************************************)
VARIABLES
    candles,              \* [n |-> len(candles), full |-> what the producers compute]
    tpc,                  \* producer goroutine: "run" or "done"
    sent,                 \* results each producer has published
    resultChan,           \* result names in flight, oldest first
    closed,               \* close(resultChan) has run
    cancelled,            \* cancel() has run
    aggPc,                \* stream processor: "off", "recv", "done"
    indicators,           \* the stream processor's TechnicalIndicators
    completedIndicators,
    signalChan,
    indicatorsChan,
    mainPc,               \* caller: "start", "wait", "returned"
    ret                   \* [signal |-> value taken from signalChan, ind |-> the set returned]

parVars == <<candles, tpc, sent, resultChan, closed, cancelled, aggPc, indicators,
             completedIndicators, signalChan, indicatorsChan, mainPc, ret>>

\* results a producer may have published ahead of the stream processor
MaxInFlight == 1

MinCandlesLow == 50 - 10

MinCandles == 50

ResultChanCap == 12

TotalIndicators == 8

\* totalIndicators of the variant with triangle analysis
TotalIndicatorsTriangle == 9

Tasks == {"macd", "ema12", "ema26", "ema200", "rsi", "adx", "priceDrop", "volume"}

\* the goroutines of the variant with triangle analysis
TriangleTasks == Tasks \cup {"triangle"}

\* the results each goroutine publishes, in its order
Publishes(t) ==
    CASE t = "macd" -> <<"macd", "signalLine">>
      [] t = "triangle" -> <<"trianglePattern", "triangleStrength",
                             "triangleHighs", "triangleLows">>
      [] t = "priceDrop" -> <<"priceDropPct12h">>
      [] t = "volume" -> <<"volumeSpike", "averageVolume", "lastVolume">>
      [] OTHER -> <<t>>

\* the switch on result.name
StoreResult(ind, name, full) ==
    CASE name = "macd" -> [ind EXCEPT !.MACD = full.MACD]
      [] name = "signalLine" -> [ind EXCEPT !.SignalLine = full.SignalLine]
      [] name = "ema12" -> [ind EXCEPT !.EMA12 = full.EMA12]
      [] name = "ema26" -> [ind EXCEPT !.EMA26 = full.EMA26]
      [] name = "ema200" -> [ind EXCEPT !.EMA200 = full.EMA200]
      [] name = "rsi" -> [ind EXCEPT !.RSI = full.RSI]
      [] name = "adx" -> [ind EXCEPT !.ADX = full.ADX]
      [] name = "priceDropPct12h" -> [ind EXCEPT !.PriceDropPct12h = full.PriceDropPct12h]
      [] name = "volumeSpike" -> [ind EXCEPT !.VolumeSpike = full.VolumeSpike]
      [] name = "averageVolume" -> [ind EXCEPT !.AverageVolume = full.AverageVolume]
      [] name = "lastVolume" -> [ind EXCEPT !.LastVolume = full.LastVolume]
      [] OTHER -> ind

checkBearishSignals(ind) ==
    LET bearishCount ==
            (IF ind.MACD < ind.SignalLine THEN 1 ELSE 0)
          + (IF ind.EMA12 < ind.EMA26 THEN 1 ELSE 0)
          + (IF ind.RSI < 45 THEN 1 ELSE 0)
          + (IF ind.CurrentPrice < ind.EMA200 THEN 1 ELSE 0)
        triggers ==
            Trig(ind.MACD < ind.SignalLine /\ ind.MACD < 0, "MACD_BEARISH_CROSSOVER")
          \o Trig(ind.EMA12 < ind.EMA26, "EMA_BEARISH_CROSSOVER")
          \o Trig(ind.RSI < 40 /\ ind.RSI < 50, "RSI_MOMENTUM_BREAKDOWN")
          \o Trig(ind.PriceDropPct12h < -5, "PRICE_TREND_REVERSAL")
          \o Trig(ind.CurrentPrice < ind.EMA200 /\ ind.RSI < 45, "MAJOR_TREND_BREAKDOWN")
          \o Trig(ind.ADX > 25 /\ ind.MACD < ind.SignalLine /\ ind.VolumeSpike,
                  "STRONG_BEARISH_TREND")
          \o Trig(bearishCount >= 3, "MULTIPLE_BEARISH_SIGNALS")
    IN [bearish |-> Len(triggers) > 0, triggers |-> triggers]

EarlyCheckNever(n) == n < 0

\* technical.go:427: the early check runs from the fourth result on
EarlyCheckDue(n) == n >= 4

\* the stream processor's set before any result: only CurrentPrice
StartSet(full) == [ZeroSet EXCEPT !.CurrentPrice = full.CurrentPrice]

TrySendDrops(ch, v) == ch

\* a non-blocking send on a channel of capacity 1
TrySend(ch, v) == IF Len(ch) < 1 THEN Append(ch, v) ELSE ch

NoReturn == [signal |-> FALSE, ind |-> ZeroSet]

\* a float64 result in the units of the IndicatorSet fields
Whole(x) == x.n \div x.d
Hundredths(x) == (100 * x.n) \div x.d

\* the IndicatorSet the indicator functions give on a candle series
FullSet(w) ==
    LET r == IndicatorsOf(w)
    IN  [MACD |-> Hundredths(r.macd), SignalLine |-> Hundredths(r.signalLine),
         EMA12 |-> Whole(r.ema12), EMA26 |-> Whole(r.ema26),
         EMA200 |-> Whole(r.ema200), RSI |-> Whole(r.rsi), ADX |-> Whole(r.adx),
         PriceDropPct12h |-> Whole(r.priceDropPct12h),
         VolumeSpike |-> r.volumeSpike,
         AverageVolume |-> Whole(r.averageVolume),
         LastVolume |-> Whole(r.lastVolume),
         CurrentPrice |-> Whole(PricesOf(w)[w.n])]

RisingSet == FullSet(RisingWindow)
FallingSet == FullSet(FallingWindow)

ParWindows == {StrongBear, Bull}

\* windows below and at the minimum length; full is what the indicator
\* functions give on the window
ParInputs ==
    {[n |-> k, full |-> StrongBear] : k \in {0, 49}} \cup
    {[n |-> 50, full |-> w] : w \in ParWindows}

\* the two monotonic windows of LongLen candles
MonotonicInputs == {[n |-> LongLen, full |-> w] : w \in {RisingSet, FallingSet}}

ParIdle ==
    /\ candles = [n |-> MinCandles - 1, full |-> ZeroSet]
    /\ tpc = [t \in Tasks |-> "done"]
    /\ sent = [t \in Tasks |-> 0]
    /\ resultChan = <<>>
    /\ closed = FALSE
    /\ cancelled = FALSE
    /\ aggPc = "off"
    /\ indicators = ZeroSet
    /\ completedIndicators = 0
    /\ signalChan = <<>>
    /\ indicatorsChan = <<>>
    /\ mainPc = "start"
    /\ ret = NoReturn

\* a call of the variant that launches the goroutines tasks
ParInitFor(inputs, tasks) ==
    /\ candles \in inputs
    /\ tpc = [t \in tasks |-> "done"]
    /\ sent = [t \in tasks |-> 0]
    /\ resultChan = <<>>
    /\ closed = FALSE
    /\ cancelled = FALSE
    /\ aggPc = "off"
    /\ indicators = ZeroSet
    /\ completedIndicators = 0
    /\ signalChan = <<>>
    /\ indicatorsChan = <<>>
    /\ mainPc = "start"
    /\ ret = NoReturn

ParInitOn(inputs) == ParInitFor(inputs, Tasks)

ParInit == ParInitOn(ParInputs)

\* technical.go:192-231, 386-391: the length test, then the goroutines start
ParStart ==
    /\ mainPc = "start"
    /\ IF candles.n < MinCandles
       THEN /\ mainPc' = "returned"
            /\ ret' = [signal |-> FALSE, ind |-> ZeroSet]
            /\ UNCHANGED <<tpc, aggPc, indicators>>
       ELSE /\ mainPc' = "wait"
            /\ tpc' = [t \in DOMAIN tpc |-> "run"]
            /\ aggPc' = "recv"
            /\ indicators' = StartSet(candles.full)
            /\ UNCHANGED ret
    /\ UNCHANGED <<candles, sent, resultChan, closed, cancelled, completedIndicators,
                   signalChan, indicatorsChan>>

DoneSeenNever(c) == FALSE

\* case <-ctx.Done() of a producer's select is ready once cancel() was called
DoneSeen(c) == c

\* a producer's select: ctx.Done() wins, or its next result is published
Producer(t) ==
    /\ tpc[t] = "run"
    /\ \/ /\ DoneSeen(cancelled)
          /\ tpc' = [tpc EXCEPT ![t] = "done"]
          /\ UNCHANGED <<sent, resultChan>>
       \/ /\ Len(resultChan) < ResultChanCap
          /\ Len(resultChan) < MaxInFlight
          /\ resultChan' = Append(resultChan, Publishes(t)[sent[t] + 1])
          /\ sent' = [sent EXCEPT ![t] = sent[t] + 1]
          /\ tpc' = [tpc EXCEPT ![t] =
                        IF sent[t] + 1 = Len(Publishes(t)) THEN "done" ELSE "run"]
    /\ UNCHANGED <<candles, closed, cancelled, aggPc, indicators, completedIndicators,
                   signalChan, indicatorsChan, mainPc, ret>>

\* totalIndicators of the variant called
totalIndicators ==
    IF "triangle" \in DOMAIN tpc THEN TotalIndicatorsTriangle ELSE TotalIndicators

\* technical.go:393-443: one iteration of the stream processor's loop
AggReceive ==
    /\ aggPc = "recv"
    /\ resultChan # <<>>
    /\ resultChan' = Tail(resultChan)
    /\ \E ind \in {StoreResult(indicators, Head(resultChan), candles.full)},
          n \in {IF completedIndicators < totalIndicators
                 THEN completedIndicators + 1 ELSE completedIndicators} :
          /\ indicators' = ind
          /\ completedIndicators' = n
          /\ IF EarlyCheckDue(n) /\ checkBearishSignals(ind).bearish
             THEN /\ cancelled' = TRUE
                  /\ signalChan' = TrySend(signalChan, TRUE)
                  /\ indicatorsChan' = TrySend(indicatorsChan, ind)
                  /\ aggPc' = "done"
             ELSE UNCHANGED <<cancelled, signalChan, indicatorsChan, aggPc>>
    /\ UNCHANGED <<candles, tpc, sent, closed, mainPc, ret>>

\* technical.go:445-453: resultChan is closed and drained
AggFinish ==
    /\ aggPc = "recv"
    /\ resultChan = <<>>
    /\ closed
    /\ signalChan' = TrySend(signalChan, FALSE)
    /\ indicatorsChan' = TrySend(indicatorsChan, indicators)
    /\ aggPc' = "done"
    /\ UNCHANGED <<candles, tpc, sent, resultChan, closed, cancelled, indicators,
                   completedIndicators, mainPc, ret>>

WaitReturnsAtOnce(pcs) == TRUE

\* wg.Wait() returns once every producer has run its deferred wg.Done()
WaitReturns(pcs) == \A t \in DOMAIN pcs : pcs[t] = "done"

\* technical.go:456-459: wg.Wait(), close(resultChan)
Closer ==
    /\ mainPc # "start"
    /\ candles.n >= MinCandles
    /\ ~closed
    /\ WaitReturns(tpc)
    /\ closed' = TRUE
    /\ UNCHANGED <<candles, tpc, sent, resultChan, cancelled, aggPc, indicators,
                   completedIndicators, signalChan, indicatorsChan, mainPc, ret>>

\* technical.go:462-464, 217: case <-signalChan: return <-indicatorsChan, then
\* the deferred cancel()
MainReturn ==
    /\ mainPc = "wait"
    /\ signalChan # <<>>
    /\ indicatorsChan # <<>>
    /\ ret' = [signal |-> Head(signalChan), ind |-> Head(indicatorsChan)]
    /\ signalChan' = Tail(signalChan)
    /\ indicatorsChan' = Tail(indicatorsChan)
    /\ mainPc' = "returned"
    /\ cancelled' = TRUE
    /\ UNCHANGED <<candles, tpc, sent, resultChan, closed, aggPc, indicators,
                   completedIndicators>>

ParNext ==
    \/ ParStart
    \/ \E t \in DOMAIN tpc : Producer(t)
    \/ AggReceive
    \/ AggFinish
    \/ Closer
    \/ MainReturn

\* C21: for a window of fewer than 50 candles the call returns the all-zero
\* IndicatorSet and starts no producer and no stream processor: nothing is
\* ever published.
C21_ShortWindowAllZero ==
    candles.n < 50 =>
        /\ mainPc = "returned" => ret.ind = ZeroSet
        /\ aggPc = "off"
        /\ \A t \in Tasks : tpc[t] # "run" /\ sent[t] = 0
        /\ resultChan = <<>>
        /\ indicators = ZeroSet

C21_Witness ==
    /\ candles.n = 49
    /\ candles.full # ZeroSet
    /\ mainPc = "returned"
    /\ ret.ind = ZeroSet
    /\ ~ret.ind.VolumeSpike

\* the order in which the goroutines are started and publish
\* the result has been taken from resultChan and stored
Received(name) ==
    /\ \E t \in Tasks : \E k \in 1..sent[t] : Publishes(t)[k] = name
    /\ \A k \in 1..Len(resultChan) : resultChan[k] # name

Quartet == {"macd", "ema12", "ema26", "rsi"}

\* C27: the stream processor evaluates its early-exit check (it does so at
\* every receive that leaves completedIndicators >= 4) only when the MACD,
\* EMA12, EMA26 and RSI results have all been received and stored.
C27_CheckOnlyAfterQuartet ==
    (candles.n >= MinCandles /\ completedIndicators >= 4) =>
        \A name \in Quartet : Received(name)

AllProducersDone == \A t \in DOMAIN tpc : tpc[t] = "done"

\* twice the results a running producer still has to publish, plus one
Unsent(t) ==
    IF t \in DOMAIN tpc /\ tpc[t] = "run"
    THEN 1 + 2 * (Len(Publishes(t)) - sent[t]) ELSE 0

\* the steps the call can still take, at most
StepsLeft ==
    (IF mainPc = "start" THEN 100 ELSE IF mainPc = "wait" THEN 1 ELSE 0)
        + Unsent("macd") + Unsent("ema12") + Unsent("ema26") + Unsent("ema200")
        + Unsent("rsi") + Unsent("adx") + Unsent("priceDrop") + Unsent("volume")
        + Unsent("triangle") + Len(resultChan)
        + (IF aggPc = "recv" THEN 1 ELSE 0) + (IF closed THEN 0 ELSE 1)

\* C28: under every interleaving, also after an early exit of the stream
\* processor and also in the variant that publishes 15 results, every
\* producer goroutine eventually terminates, none stays blocked on a send to
\* resultChan: every step of the call lowers StepsLeft, so the call takes
\* finitely many steps, and wherever no goroutine can step any more every
\* producer has terminated.
C28_ProducersTerminate ==
    /\ [][StepsLeft' < StepsLeft]_parVars
    /\ []((mainPc # "start" /\ ~ENABLED ParNext) => AllProducersDone)

\* the triangle producer ended on ctx.Done() after an early exit, with
\* results it never published
C28_Witness ==
    /\ "triangle" \in DOMAIN tpc
    /\ AllProducersDone
    /\ ret.signal
    /\ sent["triangle"] < Len(Publishes("triangle"))
    /\ \E t \in Tasks : sent[t] = 0

\* no goroutine of the call can take a step
CallAtRest == mainPc # "start" /\ ~ENABLED ParNext

\* C34: for a window of at least 50 candles and every interleaving of
\* producers, stream processor and closer, the call terminates and returns
\* exactly one IndicatorSet: every step lowers StepsLeft and the call is at
\* rest only when it has returned; the stream processor publishes on
\* signalChan and indicatorsChan exactly once, and the caller returns what
\* it published.
C34_ReturnsExactlyOnce ==
    /\ [][StepsLeft' < StepsLeft]_parVars
    /\ [](CallAtRest => mainPc = "returned" /\ aggPc = "done")
    /\ [](aggPc # "done" =>
              signalChan = <<>> /\ indicatorsChan = <<>> /\ mainPc # "returned")
    /\ [](aggPc = "done" =>
              IF mainPc = "returned"
              THEN signalChan = <<>> /\ indicatorsChan = <<>>
              ELSE Len(signalChan) = 1 /\ Len(indicatorsChan) = 1)
    /\ [][(aggPc = "done" /\ mainPc = "wait") =>
              (mainPc' = "returned" =>
                  ret' = [signal |-> Head(signalChan), ind |-> Head(indicatorsChan)])]_parVars
    /\ [][mainPc = "returned" => (mainPc' = "returned" /\ ret' = ret)]_parVars

\* the call returned the complete set after resultChan was closed and
\* drained, in the variant with the triangle producer
C34_Witness ==
    /\ "triangle" \in DOMAIN tpc
    /\ mainPc = "returned"
    /\ ~ret.signal
    /\ closed /\ resultChan = <<>>
    /\ completedIndicators = TotalIndicatorsTriangle
    /\ ret.ind = candles.full

\* C35: resultChan is closed once, and only after every producer has
\* finished: while a producer still runs the channel is open, nothing is
\* sent on the closed channel, the channel is never reopened, and a call
\* at rest has closed it, after an early exit as after a complete run.
C35_ClosedAfterProducers ==
    /\ [](closed => AllProducersDone)
    /\ [][Len(resultChan') > Len(resultChan) => ~closed /\ ~closed']_parVars
    /\ [][closed => closed']_parVars
    /\ []((CallAtRest /\ candles.n >= MinCandles) => closed)

\* the channel was closed after an early exit, with results nobody received
C35_Witness ==
    /\ closed
    /\ ret.signal /\ mainPc = "returned"
    /\ resultChan # <<>>
    /\ \E t \in DOMAIN tpc : sent[t] < Len(Publishes(t))

Rising == candles.n = LongLen /\ candles.full = RisingSet
Falling == candles.n = LongLen /\ candles.full = FallingSet

\* C25: for a monotonically increasing close-price series of 200 candles the
\* call returns an RSI near 100 and EMA12 > EMA26, and the bullish score of
\* the returned set exceeds its bearish score; for a monotonically
\* decreasing series the call returns an RSI near 0 and EMA12 < EMA26, and
\* the bearish score exceeds the bullish score.
C25_MonotonicSeries ==
    mainPc = "returned" =>
        /\ Rising =>
            /\ ret.ind.RSI >= 99
            /\ ret.ind.EMA12 > ret.ind.EMA26
            /\ calculateBullishScore(ret.ind) > calculateBearishScore(ret.ind)
        /\ Falling =>
            /\ ret.ind.RSI <= 1
            /\ ret.ind.EMA12 < ret.ind.EMA26
            /\ calculateBearishScore(ret.ind) > calculateBullishScore(ret.ind)

LaunchOrder ==
    <<"macd", "signalLine", "ema12", "ema26", "ema200", "rsi", "adx",
      "priceDropPct12h", "volumeSpike", "averageVolume", "lastVolume">>

\* what the stream processor sends when the results arrive in a given order
RECURSIVE AggregateFrom(_, _, _, _)
AggregateFrom(ind, n, order, full) ==
    IF order = <<>>
    THEN [signal |-> FALSE, ind |-> ind]
    ELSE LET ind2 == StoreResult(ind, Head(order), full)
             n2 == IF n < TotalIndicators THEN n + 1 ELSE n
         IN IF EarlyCheckDue(n2) /\ checkBearishSignals(ind2).bearish
            THEN [signal |-> TRUE, ind |-> ind2]
            ELSE AggregateFrom(ind2, n2, Tail(order), full)

\* C8: for a fixed window the bearish decision and the IndicatorSet returned
\* are the same under every arrival order of the results: every call returns
\* what a call whose results arrive in launch order returns.
C8_SameUnderEveryArrivalOrder ==
    (mainPc = "returned" /\ candles.n >= MinCandles) =>
        ret = AggregateFrom(StartSet(candles.full), 0, LaunchOrder, candles.full)

\* the set holding only the MACD, signal line, EMA12, EMA26 and RSI results
QuintetOnly(full) ==
    [StartSet(full) EXCEPT !.MACD = full.MACD, !.SignalLine = full.SignalLine,
                           !.EMA12 = full.EMA12, !.EMA26 = full.EMA26,
                           !.RSI = full.RSI]

QuintetBearish ==
    /\ candles.n >= MinCandles
    /\ checkBearishSignals(QuintetOnly(candles.full)).bearish

\* the tasks that may take arbitrarily long
SlowTasks == {"adx", "ema200"}

\* C9: when the MACD, signal line, EMA12, EMA26 and RSI results alone give a
\* bearish decision, the call returns even if the ADX and EMA200 tasks never
\* publish.
C9_ReturnsWithoutSlowTasks == QuintetBearish ~> (mainPc = "returned")

C9_Witness ==
    /\ QuintetBearish
    /\ mainPc = "returned"
    /\ ret.signal
    /\ \A t \in SlowTasks : sent[t] = 0

(***************************************************************************)
(* Specifications                                                          *)
(***************************************************************************)
vars == <<trendVars, raceVars, hookVars, parVars, callVars, cfgVars, assetVars, evalVars, indVars, lockVars, pollVars>>

Init == TrendInit /\ RaceIdle /\ HookIdle /\ ParIdle /\ CallIdle /\ CfgIdle /\ AssetIdle /\ EvalIdle /\ IndIdle /\ LockIdle /\ PollIdle

Next == TrendNext /\ UNCHANGED <<raceVars, hookVars, parVars, callVars, cfgVars, assetVars, evalVars, indVars, lockVars, pollVars>>

\* evaluations made one at a time
Spec == Init /\ [][Next]_vars

RaceStep == RaceNext /\ UNCHANGED <<hookVars, parVars, callVars, cfgVars, assetVars, evalVars, indVars, lockVars, pollVars>>

\* evaluations of the poller and of an HTTP request, interleaved
SpecRace == Init /\ [][RaceStep]_vars

WebhookInit == TrendInit /\ RaceIdle /\ HookInit /\ ParIdle /\ CallIdle /\ CfgIdle /\ AssetIdle /\ EvalIdle /\ IndIdle /\ LockIdle /\ PollIdle

WebhookStep == HookNext /\ UNCHANGED <<trendVars, raceVars, parVars, callVars, cfgVars, assetVars, evalVars, indVars, lockVars, pollVars>>

\* one SendWebhook call, for every configured retry count and target
SpecWebhook == WebhookInit /\ [][WebhookStep]_vars

\* no delivery yet: the target is chosen when a delivery starts
CallInit ==
    /\ TrendInit /\ RaceIdle /\ ParIdle /\ CallIdle /\ CfgIdle /\ AssetIdle /\ EvalIdle /\ IndIdle /\ LockIdle /\ PollIdle
    /\ HookInit /\ target = [always |-> TRUE, failures |-> 0]

CallStep == CallNext /\ UNCHANGED <<raceVars, parVars, cfgVars, assetVars, evalVars, indVars, lockVars, pollVars>>

\* evaluations one at a time, each with its webhook delivery
SpecCall == CallInit /\ [][CallStep]_vars

ConfigInit ==
    /\ TrendInit /\ webhookURL = "" /\ RaceIdle /\ HookIdle /\ ParIdle /\ CallIdle
    /\ CfgInit /\ AssetIdle /\ EvalIdle /\ IndIdle /\ LockIdle /\ PollIdle

ConfigStep ==
    LoadTradingConfig
        /\ UNCHANGED <<trendVars, raceVars, hookVars, parVars, callVars, assetVars, evalVars, indVars, lockVars, pollVars>>

\* LoadTradingConfig on every pair of environment values
SpecConfig == ConfigInit /\ [][ConfigStep]_vars

AssetInit ==
    /\ TrendInit /\ webhookURL = "" /\ RaceIdle /\ HookIdle /\ ParIdle /\ CallIdle
    /\ CfgIdle /\ AssetIdle /\ EvalIdle /\ IndIdle /\ LockIdle /\ PollIdle

AssetStep ==
    AssetNext /\ UNCHANGED <<trendVars, raceVars, hookVars, parVars, callVars, cfgVars, evalVars, indVars, lockVars, pollVars>>

\* TrackAssetValue, one call after another
SpecAsset == AssetInit /\ [][AssetStep]_vars

EvaluatorInit ==
    /\ TrendInit /\ webhookURL = "" /\ RaceIdle /\ HookIdle /\ ParIdle /\ CallIdle
    /\ CfgIdle /\ AssetIdle /\ EvalInit /\ IndIdle /\ LockIdle /\ PollIdle

EvaluatorStep ==
    EvalNext
        /\ UNCHANGED <<trendVars, raceVars, hookVars, parVars, callVars, cfgVars, assetVars, indVars, lockVars, pollVars>>

\* the Signal Evaluator applied to every IndicatorSet of the grid
SpecEvaluator == EvaluatorInit /\ [][EvaluatorStep]_vars

IndicatorsInit ==
    /\ TrendInit /\ webhookURL = "" /\ RaceIdle /\ HookIdle /\ ParIdle /\ CallIdle
    /\ CfgIdle /\ AssetIdle /\ EvalIdle /\ IndInit /\ LockIdle /\ PollIdle

IndicatorsStep ==
    ComputeIndicators
        /\ UNCHANGED <<trendVars, raceVars, hookVars, parVars, callVars, cfgVars, assetVars, evalVars, lockVars, pollVars>>

\* the indicator functions applied to every candle series of CandleWindows
SpecIndicators == IndicatorsInit /\ [][IndicatorsStep]_vars

LockingInit ==
    /\ TrendInit /\ webhookURL = "" /\ RaceIdle /\ HookIdle /\ ParIdle /\ CallIdle
    /\ CfgIdle /\ EvalIdle /\ IndIdle /\ LockInit /\ PollIdle

LockingStep ==
    LockNext
        /\ UNCHANGED <<trendVars, raceVars, hookVars, parVars, callVars, cfgVars, evalVars, indVars, pollVars>>

\* TrackAssetValue from the poller and from CheckSignal, and a reader,
\* interleaved
SpecLocking == LockingInit /\ [][LockingStep]_vars

PollerInit ==
    /\ TrendInit /\ webhookURL # "" /\ RaceIdle /\ HookIdle /\ ParIdle /\ CallIdle
    /\ CfgIdle /\ AssetIdle /\ EvalIdle /\ IndIdle /\ LockIdle /\ PollInit

PollerStep ==
    PollNext
        /\ UNCHANGED <<raceVars, hookVars, parVars, callVars, cfgVars, assetVars, evalVars, indVars, lockVars>>

\* startSignalPolling: the startup notification, the initial check and the
\* ticker loop
SpecPoller == PollerInit /\ [][PollerStep]_vars

ParallelInit ==
    TrendInit /\ webhookURL = "" /\ RaceIdle /\ HookIdle /\ ParInit /\ CallIdle /\ CfgIdle /\ AssetIdle /\ EvalIdle /\ IndIdle /\ LockIdle /\ PollIdle

ParFrame == UNCHANGED <<trendVars, raceVars, hookVars, callVars, cfgVars, assetVars, evalVars, indVars, lockVars, pollVars>>

ParallelStep == ParNext /\ ParFrame

\* one calculateTechnicalIndicatorsParallel call, every interleaving
SpecParallel == ParallelInit /\ [][ParallelStep]_vars

MonotonicInit ==
    /\ TrendInit /\ webhookURL = "" /\ RaceIdle /\ HookIdle /\ CallIdle /\ CfgIdle
    /\ AssetIdle /\ EvalIdle /\ IndIdle /\ LockIdle /\ PollIdle /\ ParInitOn(MonotonicInputs)

\* one call on a monotonically rising or falling window, every interleaving
SpecMonotonic == MonotonicInit /\ [][ParallelStep]_vars

\* the window a call of either variant works on
ProducerInputs == {[n |-> 50, full |-> Bull]}

ProducersInit ==
    /\ TrendInit /\ webhookURL = "" /\ RaceIdle /\ HookIdle /\ CallIdle /\ CfgIdle
    /\ AssetIdle /\ EvalIdle /\ IndIdle /\ LockIdle /\ PollIdle
    /\ \/ ParInitFor(ProducerInputs, Tasks)
       \/ ParInitFor(ProducerInputs, TriangleTasks)

\* one call of either variant, every goroutine scheduled as long as it can step
SpecProducersFair ==
    ProducersInit /\ [][ParallelStep]_vars /\ WF_vars(ParallelStep)

\* a step of any goroutine but the ADX and EMA200 producers
PromptStep ==
    /\ \/ ParStart
       \/ \E t \in Tasks \ SlowTasks : Producer(t)
       \/ AggReceive
       \/ AggFinish
       \/ Closer
          \/ MainReturn
    /\ ParFrame

\* the same call when the scheduler runs every goroutine that can step, except
\* that the ADX and EMA200 goroutines may never be scheduled
SpecParallelFair ==
    /\ ParallelInit
    /\ [][ParallelStep]_vars
    /\ WF_vars(PromptStep)

====
